---------------------------- MODULE Spec2Model ----------------------------
(***************************************************************************)
(* A model of the taco tensor runtime of include/taco/tensor.h:            *)
(* TensorBase handles over shared content, the coordinate insertion        *)
(* buffer, the pack / compile / assemble / compute stages, the dependent   *)
(* tensor tracker, value reads (at, iteration) and the copy-on-write       *)
(* const_iterator.                                                         *)
(*                                                                         *)
(* tensor.h holds the templates (insert, at, iterator(), const_iterator,   *)
(* transpose, the CSR/CSC factories) and the declarations of everything    *)
(* else.  The stage methods (pack, compile, assemble, compute, evaluate,   *)
(* syncValues, syncDependentTensors, setAssignment) and the generated      *)
(* kernels are only declared there; they are modelled from the             *)
(* specification text (sections 4.1, 4.4, 4.5 and 6).                      *)
(*                                                                         *)
(* Units: the coordinate buffer is a vector<char>; the model counts it in  *)
(* int-sized slots, one record being Order coordinate slots followed by    *)
(* one value slot.  Component values are mathematical integers.            *)
(***************************************************************************)
EXTENDS Integers, Sequences, FiniteSets, TLC

(***************************************************************************)
(* Bounds of the model.                                                    *)
(***************************************************************************)
\* records one handle may have pending in the coordinate buffer (SpecPack)
MaxRecords == 2
\* the same in SpecBuffer, and the records reserve() may be asked for
MaxBuffered == 3
MaxReserve == 2
\* records the coordinate buffer may grow to
MaxCapacity == 4
\* the same, where two tensors and their stages are explored
MaxPending == 1
\* capacity of an iterator's batch buffers (tensor.h fixes it to 100)
BufferCapacity == 2
\* const_iterator objects alive at one time
NumIters == 2
\* runs of its body a loop over a tensor is followed for
MaxBody == 5
\* modules the helper cache may come to hold
MaxModules == 2

\* the dimensions of every tensor of the model (a 2 x 2 matrix)
Dimensions == <<2, 2>>
Order == Len(Dimensions)

Contents == {"A", "B"}
\* "a", "b": the user's handles of A and B; "x": a user's copy of a handle;
\* "op": the copy of the operand held by an assignment; "dep": the copy of a
\* dependent held in a dependent set; "tmp": the temporary of iterate()
Handles == {"a", "b", "x", "op", "dep", "tmp"}
UserHandles == {"a", "b", "x"}
NoContent == "none"
NoHandle == "none"

RECURSIVE CoordsOfLen(_)
CoordsOfLen(n) ==
  IF n = 0 THEN {<<>>}
  ELSE {Append(c, i) : c \in CoordsOfLen(n - 1), i \in 0..(Dimensions[n] - 1)}

\* every coordinate tuple within Dimensions
Coords == CoordsOfLen(Order)
\* the component values insertions draw
Vals == {1, 2}

\* the component type of every tensor of the model, and the types a caller
\* may instantiate insert<CType> with
ComponentType == "double"
CTypes == {"double", "int"}
\* coordinate lists whose length is not the order
BadCoords == {<<0>>, <<0, 0, 0>>}

VARIABLES
  \* --- struct Content (shared by every handle of a tensor)
  storage,              \* content -> packed records, sorted, coordinates unique
  needsPack, needsCompile, needsAssemble, needsCompute,
  assignment,           \* content -> the operand handle of its assignment
  dependents,           \* content -> handles of the tensors to synchronize
  \* --- TensorBase members
  content,              \* handle -> the content it references
  coordinateBuffer,     \* content -> slots (one vector per content, shared)
  coordinateBufferUsed, \* handle -> slots used, a member of each handle
  \* --- history (not program state)
  inserted,             \* content -> records inserted since its last pack
  aliased,              \* content -> a second handle of it was ever made
  readSince,            \* content -> "read": read since its assignment;
                        \* "inserted": read, and its operand inserted into since
  trace,                \* stages the last operation ran, <<content, stage>>
  \* --- TensorStorage of the tensors the CSR/CSC factories make
  format,               \* content -> "Dense", "CSR", "CSC"; "none": no tensor
  storageIndex,         \* content -> the two Arrays of getModeIndex(1)
  storageValues,        \* content -> the Array of getValues()
  heap,                 \* buffer -> its elements, whether it is allocated,
                        \* and how often it was freed
  out,                  \* what get*Arrays last wrote through its pointers
  made,                 \* history: content -> the arguments of its factory
  kernel, \* content -> the operand its cached kernels were generated for
  helperFunctions, \* the static vector of (format, type, dimensions, module)
  modeTypes, \* content -> the ModeFormat of each mode of its format
  dimension, \* content -> its dimensions
  loop, \* the position of a loop over a tensor and the runs of its body
  lastOp,               \* the last operation and what it saw
  \* --- const_iterator objects and their contexts
  iters, ctxs, fault

tensorVars == <<storage, needsPack, needsCompile, needsAssemble, needsCompute,
                assignment, dependents, content, coordinateBuffer,
                coordinateBufferUsed, inserted, aliased, readSince, trace,
                format, storageIndex, storageValues, heap, out, made,
                kernel,
                helperFunctions,
                modeTypes,
                dimension,
                loop>>
iterVars == <<iters, ctxs, fault>>
vars == <<tensorVars, lastOp, iterVars>>

(***************************************************************************)
(* Records and the coordinate buffer layout.                               *)
(***************************************************************************)
\* one record: Order ints and one value slot
coordinateSize == Order + 1

Pair(coordinate, value) == [first |-> coordinate, second |-> value]

\* the k-th record (k = 0, 1, ...) of a buffer
RecordAt(buf, k) ==
  Pair(SubSeq(buf, k * coordinateSize + 1, k * coordinateSize + Order),
       buf[k * coordinateSize + Order + 1])

\* the records in the first `used` slots of a buffer
BufferRecords(buf, used) ==
  [k \in 1..(used \div coordinateSize) |-> RecordAt(buf, k - 1)]

\* lexicographic order of coordinate tuples
CoordLess(a, b) ==
  \E k \in 1..Len(a) : a[k] < b[k] /\ \A j \in 1..(k - 1) : a[j] = b[j]

\* one record merged into packed storage: a duplicate coordinate is summed,
\* a new one takes its place in coordinate order
Combine(st, r) ==
  IF \E k \in 1..Len(st) : st[k].first = r.first
  THEN [k \in 1..Len(st) |->
          IF st[k].first = r.first THEN Pair(r.first, st[k].second + r.second)
          ELSE st[k]]
  ELSE LET n == Cardinality({k \in 1..Len(st) : CoordLess(st[k].first, r.first)})
       IN SubSeq(st, 1, n) \o <<r>> \o SubSeq(st, n + 1, Len(st))

\* the pack kernel: the buffered records to storage, duplicates summed
RECURSIVE PackKernel(_)
PackKernel(records) ==
  IF records = <<>> THEN <<>>
  ELSE Combine(PackKernel(SubSeq(records, 1, Len(records) - 1)),
               records[Len(records)])

(***************************************************************************)
(* The tensor state as one value, so that the stages compose.              *)
(***************************************************************************)
World ==
  [storage |-> storage, needsPack |-> needsPack, needsCompile |-> needsCompile,
   needsAssemble |-> needsAssemble, needsCompute |-> needsCompute,
   assignment |-> assignment, dependents |-> dependents, content |-> content,
   coordinateBuffer |-> coordinateBuffer,
   coordinateBufferUsed |-> coordinateBufferUsed,
   inserted |-> inserted, aliased |-> aliased, readSince |-> readSince,
   format |-> format, storageIndex |-> storageIndex,
   storageValues |-> storageValues, heap |-> heap, out |-> out, made |-> made,
   kernel |-> kernel,
   helperFunctions |-> helperFunctions,
   modeTypes |-> modeTypes,
   dimension |-> dimension,
   loop |-> loop,
   trace |-> <<>>, failed |-> FALSE]

Commit(W) ==
  /\ storage' = W.storage
  /\ needsPack' = W.needsPack
  /\ needsCompile' = W.needsCompile
  /\ needsAssemble' = W.needsAssemble
  /\ needsCompute' = W.needsCompute
  /\ assignment' = W.assignment
  /\ dependents' = W.dependents
  /\ content' = W.content
  /\ coordinateBuffer' = W.coordinateBuffer
  /\ coordinateBufferUsed' = W.coordinateBufferUsed
  /\ inserted' = W.inserted
  /\ aliased' = W.aliased
  /\ readSince' = W.readSince
  /\ format' = W.format
  /\ storageIndex' = W.storageIndex
  /\ storageValues' = W.storageValues
  /\ heap' = W.heap
  /\ out' = W.out
  /\ made' = W.made
  /\ kernel' = W.kernel
  /\ helperFunctions' = W.helperFunctions
  /\ modeTypes' = W.modeTypes
  /\ dimension' = W.dimension
  /\ loop' = W.loop

\* the one element of a singleton; {e : x \in {v}} names the value v as x
The(S) == CHOOSE v \in S : TRUE

Ran(W, c, stage) == [W EXCEPT !.trace = Append(@, <<c, stage>>)]

\* a handle copy: the content and buffer pointers are shared, the used
\* counter is copied by value
copyHandle(W, from, to) ==
  [W EXCEPT !.content[to] = W.content[from],
            !.coordinateBufferUsed[to] = W.coordinateBufferUsed[from],
            !.aliased[W.content[from]] = TRUE]

destroyHandle(W, h) ==
  [W EXCEPT !.content[h] = NoContent, !.coordinateBufferUsed[h] = 0]

anyNeed(W, c) ==
  W.needsPack[c] \/ W.needsCompile[c] \/ W.needsAssemble[c] \/ W.needsCompute[c]

(***************************************************************************)
(* The stages.                                                             *)
(***************************************************************************)
RECURSIVE syncValues(_, _)

\* a plausible slip: pack leaves needsAssemble and needsCompute as they are
packKeepsFlags(W, h) ==
  LET c == W.content[h]
      records == BufferRecords(W.coordinateBuffer[c], W.coordinateBufferUsed[h])
  IN Ran([W EXCEPT !.storage[c] = PackKernel(records),
                   !.coordinateBufferUsed[h] = 0,
                   !.inserted[c] = <<>>,
                   !.needsPack[c] = FALSE], c, "pack")

\* pack through handle h: the records h counts as used go to storage
pack(W, h) ==
  LET c == W.content[h]
      records == BufferRecords(W.coordinateBuffer[c], W.coordinateBufferUsed[h])
      pending == W.assignment[c] # NoHandle
  IN Ran([W EXCEPT !.storage[c] = PackKernel(records),
                   !.coordinateBufferUsed[h] = 0,
                   !.inserted[c] = <<>>,
                   !.needsPack[c] = FALSE,
                   !.needsAssemble[c] = @ \/ pending,
                   !.needsCompute[c] = @ \/ pending], c, "pack")

compile(W, h) ==
  LET c == W.content[h]
  IN Ran([W EXCEPT !.kernel[c] = W.assignment[c],
                    !.needsCompile[c] = FALSE], c, "compile")

\* a plausible slip: the flag is cleared before the kernels are requested
compileGeneratedEager(W, h, generated) ==
  IF generated THEN compile(W, h)
  ELSE [W EXCEPT !.needsCompile[W.content[h]] = FALSE, !.failed = TRUE]

\* compile, the code generator producing the kernel pair or failing: the
\* kernels are requested first, and cached and the flag cleared on success
compileGenerated(W, h, generated) ==
  IF generated THEN compile(W, h)
  ELSE [W EXCEPT !.failed = TRUE]

assemble(W, h) ==
  LET c == W.content[h]
  IN Ran([W EXCEPT !.needsAssemble[c] = FALSE], c, "assemble")

\* the compute kernel of the copy expression B(i,j) = A(i,j); the operand
\* is synchronized first and this tensor leaves its dependent set
compute(W, h) ==
  LET c == W.content[h]
      op == W.assignment[c]
  IN The({LET oc == W1.content[op]
          IN Ran([W1 EXCEPT !.storage[c] = W1.storage[oc],
                            !.dependents[oc] = {d \in @ : W1.content[d] # c},
                            !.needsCompute[c] = FALSE], c, "compute")
          : W1 \in {syncValues(W, op)}})

\* a plausible slip: compile is run ahead of pack
evaluateCompileFirst(W, h) ==
  The({The({The({The({IF W3.needsCompute[W0.content[h]] THEN compute(W3, h) ELSE W3
    : W3 \in {IF W2.needsAssemble[W0.content[h]] THEN assemble(W2, h) ELSE W2}})
    : W2 \in {IF W1.needsPack[W0.content[h]] THEN pack(W1, h) ELSE W1}})
    : W1 \in {IF W0.needsCompile[W0.content[h]] THEN compile(W0, h) ELSE W0}})
    : W0 \in {W}})

\* a plausible slip: assemble is left to compute
evaluateSkipAssemble(W, h) ==
  The({The({The({IF W2.needsCompute[W0.content[h]] THEN compute(W2, h) ELSE W2
    : W2 \in {IF W1.needsCompile[W0.content[h]] THEN compile(W1, h) ELSE W1}})
    : W1 \in {IF W0.needsPack[W0.content[h]] THEN pack(W0, h) ELSE W0}})
    : W0 \in {W}})

\* pack, compile, assemble, compute, each as needed
evaluate(W, h) ==
  The({The({The({The({IF W3.needsCompute[W0.content[h]] THEN compute(W3, h) ELSE W3
    : W3 \in {IF W2.needsAssemble[W0.content[h]] THEN assemble(W2, h) ELSE W2}})
    : W2 \in {IF W1.needsCompile[W0.content[h]] THEN compile(W1, h) ELSE W1}})
    : W1 \in {IF W0.needsPack[W0.content[h]] THEN pack(W0, h) ELSE W0}})
    : W0 \in {W}})

syncValues(W, h) == evaluate(W, h)

\* evaluate, the code generator producing the kernels or failing: a failure
\* is surfaced to the caller and nothing of the call is committed
evaluateGenerated(W, h, generated) ==
  LET c == W.content[h]
  IN The({The({IF W2.failed
               THEN [W EXCEPT !.failed = TRUE, !.trace = W2.trace]
               ELSE evaluate(W2, h)
    : W2 \in {IF W1.needsCompile[c]
              THEN compileGenerated(W1, h, generated) ELSE W1}})
    : W1 \in {IF W.needsPack[c] THEN pack(W, h) ELSE W}})

\* the stage methods as the caller reaches them: a tensor that has no
\* assignment is a contract violation, which fails before anything is done
compileCall(W, h, generated) ==
  IF W.assignment[W.content[h]] = NoHandle THEN [W EXCEPT !.failed = TRUE]
  ELSE compileGenerated(W, h, generated)

\* a plausible slip: assemble does not look for the assignment
assembleCallUnchecked(W, h) == assemble(W, h)

assembleCall(W, h) ==
  IF W.assignment[W.content[h]] = NoHandle THEN [W EXCEPT !.failed = TRUE]
  ELSE assemble(W, h)

computeCall(W, h) ==
  IF W.assignment[W.content[h]] = NoHandle THEN [W EXCEPT !.failed = TRUE]
  ELSE compute(W, h)

RECURSIVE syncAll(_, _)
syncAll(W, hs) ==
  IF hs = {} THEN W
  ELSE LET d == CHOOSE d \in hs : TRUE
       IN The({syncAll(W1, hs \ {d}) : W1 \in {syncValues(W, d)}})

\* every dependent completes its evaluation; the set is then empty
syncDependentTensors(W, h) ==
  LET c == W.content[h]
  IN [syncAll(W, W.dependents[c]) EXCEPT !.dependents[c] = {}]

\* setAssignment: the assignment is replaced wholesale; it holds a copy of
\* the operand's handle, the operand's dependent set a copy of this one, and
\* compile, assemble and compute are needed
setAssignment(W, h, operand) ==
  LET W1 == copyHandle(copyHandle(W, operand, "op"), h, "dep")
      c == W1.content[h]
      oc == W1.content[operand]
  IN [W1 EXCEPT !.assignment[c] = "op",
                !.dependents[oc] = @ \cup {"dep"},
                !.needsCompile[c] = TRUE,
                !.needsAssemble[c] = TRUE,
                !.needsCompute[c] = TRUE]

(***************************************************************************)
(* insert (tensor.h 778-798).                                              *)
(***************************************************************************)
\* a plausible variant: the buffer is doubled when the room is short
writeRecordDoubling(buf, used, coordinate, value) ==
  LET grown == IF Len(buf) - used < coordinateSize
               THEN buf \o [k \in 1..(IF Len(buf) < coordinateSize
                                       THEN coordinateSize ELSE Len(buf)) |-> 0]
               ELSE buf
  IN [k \in 1..Len(grown) |->
        IF k > used /\ k <= used + Order THEN coordinate[k - used]
        ELSE IF k = used + Order + 1 THEN value ELSE grown[k]]

\* a plausible slip: the slots outside the new record are zeroed
writeRecordFresh(buf, used, coordinate, value) ==
  LET grown == IF Len(buf) - used < coordinateSize
               THEN buf \o [k \in 1..coordinateSize |-> 0] ELSE buf
  IN [k \in 1..Len(grown) |->
        IF k > used /\ k <= used + Order THEN coordinate[k - used]
        ELSE IF k = used + Order + 1 THEN value ELSE 0]

\* a plausible slip: the buffer is not grown
writeRecordNoGrow(buf, used, coordinate, value) ==
  [k \in 1..Len(buf) |->
     IF k > used /\ k <= used + Order THEN coordinate[k - used]
     ELSE IF k = used + Order + 1 THEN value ELSE buf[k]]

\* lines 786-795: the buffer grown by one record if the room after `used`
\* is less than a record, then the record written at `used`
writeRecord(buf, used, coordinate, value) ==
  LET grown == IF Len(buf) - used < coordinateSize
               THEN buf \o [k \in 1..coordinateSize |-> 0] ELSE buf
  IN [k \in 1..Len(grown) |->
        IF k > used /\ k <= used + Order THEN coordinate[k - used]
        ELSE IF k = used + Order + 1 THEN value ELSE grown[k]]

\* a plausible slip: the used counter is not advanced
insertNoAdvance(W, h, coordinate, value) ==
  The({LET c == W1.content[h]
           used == W1.coordinateBufferUsed[h]
       IN [W1 EXCEPT !.coordinateBuffer[c] = writeRecord(@, used, coordinate, value),
                     !.inserted[c] = Append(@, Pair(coordinate, value)),
                     !.needsPack[c] = TRUE]
       : W1 \in {syncDependentTensors(W, h)}})

\* a plausible slip: the dependent tensors are not synchronized
insertNoSync(W, h, coordinate, value) ==
  The({LET c == W1.content[h]
           used == W1.coordinateBufferUsed[h]
       IN [W1 EXCEPT !.coordinateBuffer[c] = writeRecord(@, used, coordinate, value),
                     !.coordinateBufferUsed[h] = used + coordinateSize,
                     !.inserted[c] = Append(@, Pair(coordinate, value)),
                     !.needsPack[c] = TRUE]
       : W1 \in {W}})

\* a plausible slip: the dependents are synchronized after the record is
\* written
insertSyncAfter(W, h, coordinate, value) ==
  The({syncDependentTensors(W1, h)
       : W1 \in {LET c == W.content[h]
                     used == W.coordinateBufferUsed[h]
                 IN [W EXCEPT !.coordinateBuffer[c] =
                                 writeRecord(@, used, coordinate, value),
                              !.coordinateBufferUsed[h] = used + coordinateSize,
                              !.inserted[c] = Append(@, Pair(coordinate, value)),
                              !.needsPack[c] = TRUE]}})

\* syncDependentTensors(), the record written at this handle's used
\* offset, the offset advanced, setNeedsPack(true)
insert(W, h, coordinate, value) ==
  The({LET c == W1.content[h]
           used == W1.coordinateBufferUsed[h]
       IN [W1 EXCEPT !.coordinateBuffer[c] = writeRecord(@, used, coordinate, value),
                     !.coordinateBufferUsed[h] = used + coordinateSize,
                     !.inserted[c] = Append(@, Pair(coordinate, value)),
                     !.needsPack[c] = TRUE]
       : W1 \in {syncDependentTensors(W, h)}})

\* reserve(numCoordinates): room for numCoordinates more records is added to
\* the buffer; nothing is written and the used offset stays
reserve(W, h, numCoordinates) ==
  LET c == W.content[h]
  IN [W EXCEPT !.coordinateBuffer[c] =
                  @ \o [k \in 1..(numCoordinates * coordinateSize) |-> 0]]

\* lines 780-783: the two taco_uassert conditions of insert
insertAsserts(W, h, coordinate, ctype) ==
  /\ Len(coordinate) = Order
  /\ ctype = ComponentType

\* a plausible slip: the dependents are synchronized ahead of the checks
insertCheckedLate(W, h, coordinate, ctype, value) ==
  IF insertAsserts(W, h, coordinate, ctype)
  THEN insert(W, h, coordinate, value)
  ELSE [syncDependentTensors(W, h) EXCEPT !.failed = TRUE]

\* insert<CType>(coordinate, value) as a whole: a failed taco_uassert ends
\* the call before any other statement of it has run
insertChecked(W, h, coordinate, ctype, value) ==
  IF insertAsserts(W, h, coordinate, ctype)
  THEN insert(W, h, coordinate, value)
  ELSE [W EXCEPT !.failed = TRUE]

(***************************************************************************)
(* The iteration kernel and const_iterator (tensor.h 155-293).             *)
(***************************************************************************)
Min(a, b) == IF a < b THEN a ELSE b

\* a plausible slip: the kernel starts over once storage is exhausted
IterKernelAgain(iterCtx, st, capacity) ==
  LET pos == IF iterCtx = <<>> \/ iterCtx[1] >= Len(st) THEN 0 ELSE iterCtx[1]
      n == Min(capacity, Len(st) - pos)
  IN [count |-> n, batch |-> SubSeq(st, pos + 1, pos + n),
      iterCtx |-> <<pos + n>>]

\* the generated _shim_iterate: up to `capacity` records from the position
\* kept in the iteration state, which a null (empty) state starts at 0; the
\* count returned is 0 once storage is exhausted, and stays 0
IterKernel(iterCtx, st, capacity) ==
  LET pos == IF iterCtx = <<>> THEN 0 ELSE iterCtx[1]
      n == Min(capacity, Len(st) - pos)
  IN [count |-> n, batch |-> SubSeq(st, pos + 1, pos + n),
      iterCtx |-> <<pos + n>>]

\* what new T[] and new CType[] may hold before the kernel writes them
JunkPairs == {Pair([k \in 1..Order |-> 0], 0), Pair([k \in 1..Order |-> 1], 1)}

\* Context(order, bufferCapacity, iterCtx): fresh buffers, curVal zeroed
Context(junk, iterCtx) ==
  [coordBuffer |-> [k \in 1..BufferCapacity |-> junk.first],
   valBuffer |-> [k \in 1..BufferCapacity |-> junk.second],
   curVal |-> Pair([k \in 1..Order |-> 0], 0),
   iterCtx |-> iterCtx]

\* a plausible slip: an empty batch resets the iteration state
fillBufferRewind(it, cx, st) ==
  LET r == IterKernel(cx.iterCtx, st, BufferCapacity)
  IN [it |-> [it EXCEPT !.bufferSize = r.count],
      cx |-> [cx EXCEPT
                !.coordBuffer = [k \in 1..BufferCapacity |->
                                   IF k <= r.count THEN r.batch[k].first ELSE @[k]],
                !.valBuffer = [k \in 1..BufferCapacity |->
                                 IF k <= r.count THEN r.batch[k].second ELSE @[k]],
                !.iterCtx = IF r.count = 0 THEN <<>> ELSE r.iterCtx]]

\* a plausible slip: a batch is taken to fill the buffers
fillBufferWhole(it, cx, st) ==
  LET r == IterKernel(cx.iterCtx, st, BufferCapacity)
  IN [it |-> [it EXCEPT !.bufferSize = IF r.count = 0 THEN 0 ELSE BufferCapacity],
      cx |-> [cx EXCEPT
                !.coordBuffer = [k \in 1..BufferCapacity |->
                                   IF k <= r.count THEN r.batch[k].first ELSE @[k]],
                !.valBuffer = [k \in 1..BufferCapacity |->
                                 IF k <= r.count THEN r.batch[k].second ELSE @[k]],
                !.iterCtx = r.iterCtx]]

\* fillBuffer: the kernel overwrites the first `count` entries of the
\* buffers and advances its state; bufferSize is the count
fillBuffer(it, cx, st) ==
  LET r == IterKernel(cx.iterCtx, st, BufferCapacity)
  IN [it |-> [it EXCEPT !.bufferSize = r.count],
      cx |-> [cx EXCEPT
                !.coordBuffer = [k \in 1..BufferCapacity |->
                                   IF k <= r.count THEN r.batch[k].first ELSE @[k]],
                !.valBuffer = [k \in 1..BufferCapacity |->
                                 IF k <= r.count THEN r.batch[k].second ELSE @[k]],
                !.iterCtx = r.iterCtx]]

\* a plausible slip: the batch is taken for exhausted one record early
advanceOwnEarly(it, cx, st) ==
  The({[it |-> f.it,
        cx |-> [f.cx EXCEPT !.curVal = Pair(f.cx.coordBuffer[f.it.bufferPos + 1],
                                            f.cx.valBuffer[f.it.bufferPos + 1])]]
       : f \in {IF it.bufferPos + 2 >= it.bufferSize
                THEN The({[it |-> [g.it EXCEPT !.bufferPos = 0], cx |-> g.cx]
                          : g \in {fillBuffer([it EXCEPT !.bufferPos = @ + 1],
                                              cx, st)}})
                ELSE [it |-> [it EXCEPT !.bufferPos = @ + 1], cx |-> cx]}})

\* advance() on a context the iterator has to itself (lines 264-273)
advanceOwn(it, cx, st) ==
  The({[it |-> f.it,
        cx |-> [f.cx EXCEPT !.curVal = Pair(f.cx.coordBuffer[f.it.bufferPos + 1],
                                            f.cx.valBuffer[f.it.bufferPos + 1])]]
       : f \in {IF it.bufferPos + 1 >= it.bufferSize
                THEN The({[it |-> [g.it EXCEPT !.bufferPos = 0], cx |-> g.cx]
                          : g \in {fillBuffer([it EXCEPT !.bufferPos = @ + 1],
                                              cx, st)}})
                ELSE [it |-> [it EXCEPT !.bufferPos = @ + 1], cx |-> cx]}})

\* a plausible slip: the copy's iteration state is allocated and not filled
cloneWithoutState(cx) ==
  [cx EXCEPT !.curVal = Pair([k \in 1..Order |-> 0], 0), !.iterCtx = <<>>]

\* the copy advance() makes of a shared context: both buffers and the
\* iteration state are copied, curVal is the new context's own
clone(cx) == [cx EXCEPT !.curVal = Pair([k \in 1..Order |-> 0], 0)]

\* a plausible slip: a shared context is advanced in place
advanceInPlace(it, cx, shared, st) ==
  LET r == advanceOwn(it, cx, st)
  IN [it |-> r.it, cx |-> r.cx, cloned |-> FALSE]

\* advance(): copy-on-write of a context other iterators share
advance(it, cx, shared, st) ==
  LET r == advanceOwn(it, IF shared THEN clone(cx) ELSE cx, st)
  IN [it |-> r.it, cx |-> r.cx, cloned |-> shared]

isEnd(it) == it.bufferSize = 0

\* the records a loop from begin() to end() over storage st dereferences
RECURSIVE Yielded(_, _, _)
Yielded(it, cx, st) ==
  IF isEnd(it) THEN <<>>
  ELSE The({<<cx.curVal>> \o Yielded(n.it, n.cx, st)
            : n \in {advanceOwn(it, cx, st)}})

ReadAll(st, junk) ==
  The({Yielded(b.it, b.cx, st)
       : b \in {advanceOwn([bufferSize |-> 0, bufferPos |-> 0],
                           Context(junk, <<>>), st)}})

(***************************************************************************)
(* Reads (tensor.h 817-854, 946-1008).                                     *)
(***************************************************************************)
\* the search loop of at(): the first record at the coordinate, else 0
RECURSIVE FirstMatch(_, _)
FirstMatch(values, coordinate) ==
  IF values = <<>> THEN 0
  ELSE IF values[1].first = coordinate THEN values[1].second
  ELSE FirstMatch(Tail(values), coordinate)

\* a plausible slip: only the first index is compared
RECURSIVE FirstMatchRow(_, _)
FirstMatchRow(values, coordinate) ==
  IF values = <<>> THEN 0
  ELSE IF values[1].first[1] = coordinate[1] THEN values[1].second
  ELSE FirstMatchRow(Tail(values), coordinate)

\* the position of the key's entry in the helper cache, 0 when it has none
Cached(cache, fmt, ctype, dims) ==
  IF \E k \in 1..Len(cache) : /\ cache[k].format = fmt
                              /\ cache[k].ctype = ctype
                              /\ cache[k].dimensions = dims
  THEN CHOOSE k \in 1..Len(cache) :
         /\ cache[k].format = fmt /\ cache[k].ctype = ctype
         /\ cache[k].dimensions = dims
         /\ \A j \in 1..(k - 1) : ~(/\ cache[j].format = fmt
                                    /\ cache[j].ctype = ctype
                                    /\ cache[j].dimensions = dims)
  ELSE 0

\* the module the code generator makes for a key: modules are told apart
\* by the order in which they were generated
generate(cache, fmt, ctype, dims) ==
  [format |-> fmt, ctype |-> ctype, dimensions |-> dims,
   module |-> Len(cache) + 1]

\* a plausible slip: the module is generated anew at every request
getHelperFunctionsAnew(W, fmt, ctype, dims) ==
  [W |-> [W EXCEPT !.helperFunctions =
                     Append(@, generate(@, fmt, ctype, dims))],
   module |-> Len(W.helperFunctions) + 1]

\* getHelperFunctions: the module of the key's entry; a key that has none
\* gets a module generated, appended to the vector and returned
getHelperFunctions(W, fmt, ctype, dims) ==
  The({IF k # 0
       THEN [W |-> W, module |-> W.helperFunctions[k].module]
       ELSE [W |-> [W EXCEPT !.helperFunctions =
                               Append(@, generate(@, fmt, ctype, dims))],
             module |-> Len(W.helperFunctions) + 1]
       : k \in {Cached(W.helperFunctions, fmt, ctype, dims)}})

\* const_iterator's constructor asks for the helpers of its tensor
helpersOf(W, h) ==
  getHelperFunctions(W, W.format[W.content[h]], ComponentType, Dimensions).W

\* the loop `for (auto& value : iterate<CType>(t))` over a non-const
\* temporary copy of the handle: iterator() synchronizes through the copy
iterateSynced(W, h, junk) ==
  The({[W |-> destroyHandle(helpersOf(W2, "tmp"), "tmp"),
        values |-> ReadAll(W2.storage[W2.content["tmp"]], junk),
        pending |-> anyNeed(W2, W2.content["tmp"])]
       : W2 \in {syncValues(copyHandle(W, h, "tmp"), "tmp")}})

atRow(W, h, coordinate, junk) ==
  The({[W |-> r.W, value |-> FirstMatchRow(r.values, coordinate),
        pending |-> r.pending]
       : r \in {iterateSynced(syncValues(W, h), h, junk)}})

\* a plausible slip: a coordinate that is not found returns the value of
\* the first record
atFirstOnMiss(W, h, coordinate, junk) ==
  The({[W |-> r.W,
        value |-> IF \E k \in 1..Len(r.values) : r.values[k].first = coordinate
                  THEN FirstMatch(r.values, coordinate)
                  ELSE IF r.values = <<>> THEN 0 ELSE r.values[1].second,
        pending |-> r.pending]
       : r \in {iterateSynced(syncValues(W, h), h, junk)}})

\* at(): syncValues(), then the search loop over iterate<CType>(*this)
at(W, h, coordinate, junk) ==
  The({[W |-> r.W, value |-> FirstMatch(r.values, coordinate),
        pending |-> r.pending]
       : r \in {iterateSynced(syncValues(W, h), h, junk)}})

\* iteration through the const overloads (begin() const, iterator() const,
\* the loop of transpose): no syncValues()
iterateConst(W, h, junk) ==
  [W |-> helpersOf(W, h),
   values |-> ReadAll(W.storage[W.content[h]], junk),
   pending |-> anyNeed(W, W.content[h])]

(***************************************************************************)
(* Initial state: A and B constructed, nothing inserted, no iterator.      *)
(***************************************************************************)
(***************************************************************************)
(* The CSR/CSC factories and accessors (tensor.h 641-734), the Arrays of   *)
(* a tensor's storage and the buffers behind them.                         *)
(***************************************************************************)
\* the caller's three buffers, and the buffers the storage of a content
\* allocates for itself
UserBuffers == <<"ptr", "idx", "vals">>
Allocated ==
  [c \in Contents |->
     IF c = "A" THEN <<"A0", "A1", "A2">> ELSE <<"B0", "B1", "B2">>]
Buffers == {"ptr", "idx", "vals", "A0", "A1", "A2", "B0", "B1", "B2"}
Null == "null"

\* an Array: the data pointer and the policy (Array::UserOwns, Array::Free)
makeArray(data, policy) == [data |-> data, policy |-> policy]
NoArray == makeArray(Null, "none")
NoBuffer == [data |-> <<>>, allocated |-> FALSE, frees |-> 0]
NoMade == [factory |-> "none", ptr |-> <<>>, idx |-> <<>>, vals |-> <<>>]

\* the dimension lists a factory is called with
DimLists == {<<2, 2>>, <<2>>, <<2, 2, 2>>}

\* the records a compressed matrix holds: row (column) k owns the positions
\* ptr[k] .. ptr[k + 1] - 1, both counted from 0
Owner(ptr, p) ==
  CHOOSE k \in 0..(Len(ptr) - 2) : ptr[k + 1] < p /\ p <= ptr[k + 2]

CSRRecords(rowptr, colidx, vals) ==
  [p \in 1..rowptr[Len(rowptr)] |->
     Pair(<<Owner(rowptr, p), colidx[p]>>, vals[p])]

CSCRecords(colptr, rowidx, vals) ==
  [p \in 1..colptr[Len(colptr)] |->
     Pair(<<rowidx[p], Owner(colptr, p)>>, vals[p])]

\* Tensor<CType> tensor(name, dimensions, fmt): a new content
construct(W, h, fmt) ==
  LET c == CHOOSE c \in Contents : W.format[c] = "none"
  IN [W EXCEPT !.content[h] = c, !.format[c] = fmt]

\* ModeFormat, and the default of the constructors' modeType argument
ModeFormats == {"dense", "compressed"}
DefaultModeType == "compressed"

\* TensorBase(ctype, dimensions, modeType) and TensorBase(name, ctype,
\* dimensions, modeType): a new content, every mode in modeType
TensorBase(W, h, dimensions, modeType) ==
  LET c == CHOOSE c \in Contents : W.format[c] = "none"
  IN [W EXCEPT !.content[h] = c,
               !.format[c] = IF modeType = "dense" THEN "Dense" ELSE "Sparse",
               !.modeTypes[c] = [k \in 1..Len(dimensions) |-> modeType],
               !.dimension[c] = dimensions]

\* Tensor(dimensions, modeType): the base is constructed from the type and
\* the dimensions, so its modeType is the default
tensorUnnamed(W, h, dimensions, modeType) ==
  TensorBase(W, h, dimensions, DefaultModeType)

\* Tensor(name, dimensions, modeType)
tensorNamed(W, h, dimensions, modeType) ==
  TensorBase(W, h, dimensions, modeType)

\* makeArray(vector): a buffer of the storage's own, holding a copy
allocate(W, id, data) ==
  [W EXCEPT !.heap[id] = [data |-> data, allocated |-> TRUE, frees |-> @.frees]]

\* the end of a handle's life; with the last handle of a content its
\* storage goes, and with it the buffers of the Arrays whose policy is Free
destroyTensor(W, h) ==
  LET c == W.content[h]
      last == \A g \in Handles \ {h} : W.content[g] # c
      arrays == {W.storageIndex[c][k] : k \in 1..Len(W.storageIndex[c])}
                  \cup {W.storageValues[c]}
      freed == {a.data : a \in {a \in arrays : a.policy = "Free"}}
  IN IF ~last THEN destroyHandle(W, h)
     ELSE [destroyHandle(W, h) EXCEPT
             !.heap = [id \in Buffers |->
                         IF id \in freed
                         THEN [@[id] EXCEPT !.allocated = FALSE,
                                            !.frees = @ + 1]
                         ELSE @[id]],
             !.storageIndex[c] = <<>>,
             !.storageValues[c] = NoArray,
             !.storage[c] = <<>>]

\* Tensor<CType> tensor(name, dimensions, format): a new content of the
\* given dimensions, each mode in the ModeFormat the format gives it
tensorOfFormat(W, h, dimensions, fmt) ==
  LET c == CHOOSE c \in Contents : W.format[c] = "none"
  IN [W EXCEPT !.content[h] = c,
               !.format[c] = IF \A k \in 1..Len(fmt) : fmt[k] = "dense"
                             THEN "Dense" ELSE "Sparse",
               !.modeTypes[c] = fmt,
               !.dimension[c] = dimensions]

\* the coordinate transpose builds: mode k of the new tensor is mode
\* newModeOrdering[k] of this one (modes are counted from 0)
newCoordinate(coordinate, newModeOrdering) ==
  [k \in 1..Len(newModeOrdering) |-> coordinate[newModeOrdering[k] + 1]]

\* the loop of transpose: each value is inserted at its new coordinate
RECURSIVE insertEach(_, _, _, _)
insertEach(W, h, values, newModeOrdering) ==
  IF values = <<>> THEN W
  ELSE The({insertEach(W1, h, Tail(values), newModeOrdering)
            : W1 \in {insertChecked(W, h,
                                    newCoordinate(values[1].first, newModeOrdering),
                                    ComponentType, values[1].second)}})

\* a plausible slip: the values are inserted at the coordinates they have
transposeInPlace(W, h, to, newModeOrdering, fmt, junk) ==
  The({The({destroyTensor(copyHandle(pack(W2, "tmp"), "tmp", to), "tmp")
            : W2 \in {insertEach(
                        tensorOfFormat(r.W, "tmp",
                                       newCoordinate(W.dimension[W.content[h]],
                                                     newModeOrdering), fmt),
                        "tmp", r.values, [k \in 1..Len(newModeOrdering) |-> k - 1])}})
       : r \in {iterateConst(W, h, junk)}})

\* transpose(name, newModeOrdering, format): a new tensor of the permuted
\* dimensions is filled from the values this one iterates (the method is
\* const: nothing is synchronized), packed and returned by value as `to`
transpose(W, h, to, newModeOrdering, fmt, junk) ==
  The({The({destroyTensor(copyHandle(pack(W2, "tmp"), "tmp", to), "tmp")
            : W2 \in {insertEach(
                        tensorOfFormat(r.W, "tmp",
                                       newCoordinate(W.dimension[W.content[h]],
                                                     newModeOrdering), fmt),
                        "tmp", r.values, newModeOrdering)}})
       : r \in {iterateConst(W, h, junk)}})

\* the body the four factories share: the tensor is a local of the factory,
\* its storage is given the index and the values, and it is returned by
\* value as h
factory(W, h, fmt, index, vals, records, how) ==
  The({destroyTensor(copyHandle(W2, "tmp", h), "tmp")
       : W2 \in {LET c == W1.content["tmp"]
                 IN [W1 EXCEPT !.storageIndex[c] = index,
                               !.storageValues[c] = vals,
                               !.storage[c] = records,
                               !.made[c] = how]
                 : W1 \in {construct(W, "tmp", fmt)}}})

\* what a pointer overload is given: the elements of the caller's buffers
Given(W, name, which) ==
  [factory |-> name,
   ptr |-> W.heap[which[1]].data,
   idx |-> W.heap[which[2]].data,
   vals |-> W.heap[which[3]].data]

\* the body the two vector overloads share: makeCSRIndex / makeCSCIndex of
\* two vectors and makeArray of one, each into a buffer of the storage's own
vectorFactory(W, h, fmt, ptr, idx, vals, records, how) ==
  The({factory(allocate(allocate(allocate(W, ids[1], ptr), ids[2], idx),
                        ids[3], vals),
               h, fmt,
               <<makeArray(ids[1], "Free"), makeArray(ids[2], "Free")>>,
               makeArray(ids[3], "Free"), records, how)
       : ids \in {Allocated[CHOOSE c \in Contents : W.format[c] = "none"]}})

\* a plausible slip: the pointer overload copies the caller's arrays
makeCSRCopies(W, h, dimensions, rowptr, colidx, vals) ==
  IF Len(dimensions) # 2 THEN [W EXCEPT !.failed = TRUE]
  ELSE vectorFactory(W, h, "CSR", W.heap[rowptr].data, W.heap[colidx].data,
                     W.heap[vals].data,
                     CSRRecords(W.heap[rowptr].data, W.heap[colidx].data,
                                W.heap[vals].data),
                     Given(W, "makeCSR", <<rowptr, colidx, vals>>))

\* a plausible slip: the pointer overload tags the caller's arrays Free
makeCSROwning(W, h, dimensions, rowptr, colidx, vals) ==
  IF Len(dimensions) # 2 THEN [W EXCEPT !.failed = TRUE]
  ELSE factory(W, h, "CSR",
               <<makeArray(rowptr, "Free"), makeArray(colidx, "Free")>>,
               makeArray(vals, "Free"),
               CSRRecords(W.heap[rowptr].data, W.heap[colidx].data,
                          W.heap[vals].data),
               Given(W, "makeCSR", <<rowptr, colidx, vals>>))

\* makeCSR(name, dimensions, int* rowptr, int* colidx, CType* vals)
makeCSR(W, h, dimensions, rowptr, colidx, vals) ==
  IF Len(dimensions) # 2 THEN [W EXCEPT !.failed = TRUE]
  ELSE factory(W, h, "CSR",
               <<makeArray(rowptr, "UserOwns"), makeArray(colidx, "UserOwns")>>,
               makeArray(vals, "UserOwns"),
               CSRRecords(W.heap[rowptr].data, W.heap[colidx].data,
                          W.heap[vals].data),
               Given(W, "makeCSR", <<rowptr, colidx, vals>>))

\* makeCSC(name, dimensions, int* colptr, int* rowidx, T* vals)
makeCSC(W, h, dimensions, colptr, rowidx, vals) ==
  IF Len(dimensions) # 2 THEN [W EXCEPT !.failed = TRUE]
  ELSE factory(W, h, "CSC",
               <<makeArray(colptr, "UserOwns"), makeArray(rowidx, "UserOwns")>>,
               makeArray(vals, "UserOwns"),
               CSCRecords(W.heap[colptr].data, W.heap[rowidx].data,
                          W.heap[vals].data),
               Given(W, "makeCSC", <<colptr, rowidx, vals>>))

\* makeCSR(name, dimensions, vector rowptr, vector colidx, vector vals)
makeCSRVectors(W, h, dimensions, rowptr, colidx, vals) ==
  IF Len(dimensions) # 2 THEN [W EXCEPT !.failed = TRUE]
  ELSE vectorFactory(W, h, "CSR", rowptr, colidx, vals,
                     CSRRecords(rowptr, colidx, vals),
                     [factory |-> "makeCSRVectors", ptr |-> rowptr,
                      idx |-> colidx, vals |-> vals])

\* makeCSC(name, dimensions, vector colptr, vector rowidx, vector vals)
makeCSCVectors(W, h, dimensions, colptr, rowidx, vals) ==
  IF Len(dimensions) # 2 THEN [W EXCEPT !.failed = TRUE]
  ELSE vectorFactory(W, h, "CSC", colptr, rowidx, vals,
                     CSCRecords(colptr, rowidx, vals),
                     [factory |-> "makeCSCVectors", ptr |-> colptr,
                      idx |-> rowidx, vals |-> vals])

\* the statements the two accessors share after the format check: the data
\* pointers of the two index arrays of mode 1 and of the values
getArrays(W, h) ==
  LET c == W.content[h]
  IN [W EXCEPT !.out = <<W.storageIndex[c][1].data, W.storageIndex[c][2].data,
                         W.storageValues[c].data>>]

\* a plausible slip: the format is not checked
getCSRArraysUnchecked(W, h) == getArrays(W, h)

getCSRArrays(W, h) ==
  IF W.format[W.content[h]] # "CSR" THEN [W EXCEPT !.failed = TRUE]
  ELSE getArrays(W, h)

getCSCArrays(W, h) ==
  IF W.format[W.content[h]] # "CSC" THEN [W EXCEPT !.failed = TRUE]
  ELSE getArrays(W, h)

\* no loop has begun
NoLoop == [pc |-> "idle", h |-> NoHandle, count |-> 0]

\* the storage of the tensors that no factory made
InitStorage ==
  /\ format = [c \in Contents |-> "Dense"]
  /\ storageIndex = [c \in Contents |-> <<>>]
  /\ storageValues = [c \in Contents |-> NoArray]
  /\ heap = [id \in Buffers |-> NoBuffer]
  /\ out = <<Null, Null, Null>>
  /\ made = [c \in Contents |-> NoMade]
  /\ loop = NoLoop
  /\ dimension = [c \in Contents |-> Dimensions]
  /\ modeTypes = [c \in Contents |-> [k \in 1..Order |-> "dense"]]
  /\ helperFunctions = <<>>
  /\ kernel = [c \in Contents |-> NoHandle]

NoOp == [op |-> "none", h |-> NoHandle, pending |-> FALSE, again |-> FALSE,
         it |-> 0, rhs |-> 0, equal |-> FALSE,
         coordinate |-> <<>>, value |-> 0, failed |-> FALSE,
         size |-> 0, dimensions |-> <<>>,
         format |-> "none", ctype |-> "none", modeType |-> "none",
         to |-> NoHandle, ordering |-> <<>>]

\* ctx 0 is the null shared_ptr; copyOf is history, the iterator this one
\* was copy-constructed from
NoIter == [alive |-> FALSE, tensor |-> NoHandle, bufferSize |-> 0,
           bufferPos |-> 0, ctx |-> 0, copyOf |-> 0]
NoContext == <<>>

InitTensors ==
  /\ storage = [c \in Contents |-> <<>>]
  /\ needsPack = [c \in Contents |-> FALSE]
  /\ needsCompile = [c \in Contents |-> FALSE]
  /\ needsAssemble = [c \in Contents |-> FALSE]
  /\ needsCompute = [c \in Contents |-> FALSE]
  /\ assignment = [c \in Contents |-> NoHandle]
  /\ dependents = [c \in Contents |-> {}]
  /\ content = [h \in Handles |->
                  IF h = "a" THEN "A" ELSE IF h = "b" THEN "B" ELSE NoContent]
  /\ coordinateBuffer = [c \in Contents |-> <<>>]
  /\ coordinateBufferUsed = [h \in Handles |-> 0]
  /\ inserted = [c \in Contents |-> <<>>]
  /\ aliased = [c \in Contents |-> FALSE]
  /\ readSince = [c \in Contents |-> "no"]
  /\ trace = <<>>
  /\ InitStorage

InitIters ==
  /\ iters = [i \in 1..NumIters |-> NoIter]
  /\ ctxs = [k \in 1..NumIters |-> NoContext]
  /\ fault = FALSE

Init == InitTensors /\ lastOp = NoOp /\ InitIters

(***************************************************************************)
(* Operations on tensors.                                                  *)
(***************************************************************************)
Constructed(h) == content[h] # NoContent

\* fewer than n records are pending through h and in its tensor
Room(h, n) ==
  /\ content[h] # NoContent
  /\ coordinateBufferUsed[h] \div coordinateSize < n
  /\ Len(inserted[content[h]]) < n

\* history: the tensors read before whose operand is now inserted into
noteInsert(W, c) ==
  [W EXCEPT !.readSince = [b \in Contents |->
     IF /\ @[b] = "read"
        /\ W.assignment[b] # NoHandle
        /\ W.content[W.assignment[b]] = c
     THEN "inserted" ELSE @[b]]]

noteRead(W, c) == [W EXCEPT !.readSince[c] = "read"]

\* t.insert<ctype>(coordinate, value)
InsertAs(h, coordinate, ctype, value) ==
  /\ Constructed(h)
  /\ \E W1 \in {insertChecked(World, h, coordinate, ctype, value)} :
       /\ Commit(IF W1.failed THEN W1 ELSE noteInsert(W1, content[h]))
       /\ trace' = W1.trace
       /\ lastOp' = [NoOp EXCEPT !.op = "insert", !.h = h,
                                 !.coordinate = coordinate,
                                 !.value = value,
                                 !.failed = W1.failed,
                                 !.size = Len(coordinateBuffer[content[h]])]
  /\ UNCHANGED iterVars

Insert(h, coordinate, value) == InsertAs(h, coordinate, ComponentType, value)

\* an insertion one of whose two checks fails
InsertRejected(h, coordinate, ctype, value) ==
  /\ ~insertAsserts(World, h, coordinate, ctype)
  /\ InsertAs(h, coordinate, ctype, value)

\* TensorBase's copy constructor: `to` becomes a second handle of the tensor
CopyHandle(from, to) ==
  /\ Constructed(from)
  /\ ~Constructed(to)
  /\ \E W1 \in {copyHandle(World, from, to)} : Commit(W1)
  /\ lastOp' = NoOp
  /\ trace' = <<>>
  /\ UNCHANGED iterVars

Pack(h) ==
  /\ Constructed(h)
  /\ needsPack[content[h]]
  /\ \E W1 \in {pack(World, h)} : Commit(W1)
  /\ lastOp' = [NoOp EXCEPT !.op = "pack", !.h = h]
  /\ trace' = <<>>
  /\ UNCHANGED iterVars

Reserve(h, numCoordinates) ==
  /\ Constructed(h)
  /\ \E W1 \in {reserve(World, h, numCoordinates)} : Commit(W1)
  /\ lastOp' = [NoOp EXCEPT !.op = "reserve", !.h = h]
  /\ trace' = <<>>
  /\ UNCHANGED iterVars

\* B(i,j) = A(i,j)
SetAssignment(h, operand) ==
  /\ Constructed(h) /\ Constructed(operand)
  /\ \E W1 \in {setAssignment(World, h, operand)} :
       Commit([W1 EXCEPT !.readSince[content[h]] = "no"])
  /\ lastOp' = NoOp
  /\ trace' = <<>>
  /\ UNCHANGED iterVars

Compile(h) ==
  /\ Constructed(h)
  /\ assignment[content[h]] # NoHandle
  /\ \E W1 \in {compile(World, h)} : Commit(W1)
  /\ lastOp' = NoOp
  /\ trace' = <<>>
  /\ UNCHANGED iterVars

Assemble(h) ==
  /\ Constructed(h)
  /\ assignment[content[h]] # NoHandle
  /\ \E W1 \in {assemble(World, h)} : Commit(W1)
  /\ lastOp' = NoOp
  /\ trace' = <<>>
  /\ UNCHANGED iterVars

Compute(h) ==
  /\ Constructed(h)
  /\ assignment[content[h]] # NoHandle
  /\ \E W1 \in {compute(World, h)} : Commit(W1)
  /\ lastOp' = NoOp
  /\ trace' = <<>>
  /\ UNCHANGED iterVars

Evaluate(h) ==
  /\ Constructed(h)
  /\ \E W1 \in {evaluate(World, h)} :
       /\ Commit(W1)
       /\ trace' = W1.trace
  /\ lastOp' = [NoOp EXCEPT !.op = "evaluate", !.h = h,
                            !.again = (lastOp.op = "evaluate" /\ lastOp.h = h)]
  /\ UNCHANGED iterVars

At(h, coordinate) ==
  /\ Constructed(h)
  /\ \E junk \in JunkPairs :
       \E r \in {at(World, h, coordinate, junk)} :
          /\ Commit(noteRead(r.W, content[h]))
          /\ trace' = r.W.trace
          /\ lastOp' = [NoOp EXCEPT !.op = "at", !.h = h,
                                    !.coordinate = coordinate,
                                    !.value = r.value,
                                    !.pending = r.pending,
                                    !.again = (readSince[content[h]] = "inserted")]
  /\ UNCHANGED iterVars

\* for (auto& value : iterate<CType>(t)) ...
Iterate(h) ==
  /\ Constructed(h)
  /\ \E junk \in JunkPairs :
       \E r \in {iterateSynced(World, h, junk)} :
          /\ Commit(noteRead(r.W, content[h]))
          /\ trace' = r.W.trace
          /\ lastOp' = [NoOp EXCEPT !.op = "iterate", !.h = h,
                                    !.pending = r.pending,
                                    !.again = (readSince[content[h]] = "inserted")]
  /\ UNCHANGED iterVars

\* for (auto& value : t) ... with t a const Tensor<CType>
IterateConst(h) ==
  /\ Constructed(h)
  /\ \E junk \in JunkPairs :
       \E r \in {iterateConst(World, h, junk)} :
          /\ Commit(r.W)
          /\ trace' = <<>>
          /\ lastOp' = [NoOp EXCEPT !.op = "iterateConst", !.h = h,
                                    !.pending = r.pending]
  /\ UNCHANGED iterVars

(***************************************************************************)
(* Operations on the tensors of the CSR/CSC factories.                     *)
(***************************************************************************)
\* a content is left for a tensor to be made
Vacant == \E c \in Contents : format[c] = "none"

\* the vectors a caller passes hold what its buffers hold
UserData(k) == heap[UserBuffers[k]].data

MakeCSR(h, dimensions) ==
  /\ ~Constructed(h)
  /\ Vacant
  /\ \E W1 \in {makeCSR(World, h, dimensions,
                        UserBuffers[1], UserBuffers[2], UserBuffers[3])} :
       /\ Commit(W1)
       /\ lastOp' = [NoOp EXCEPT !.op = "makeCSR", !.h = h,
                                 !.dimensions = dimensions,
                                 !.failed = W1.failed]
  /\ trace' = <<>>
  /\ UNCHANGED iterVars

MakeCSRVectors(h, dimensions) ==
  /\ ~Constructed(h)
  /\ Vacant
  /\ \E W1 \in {makeCSRVectors(World, h, dimensions,
                               UserData(1), UserData(2), UserData(3))} :
       /\ Commit(W1)
       /\ lastOp' = [NoOp EXCEPT !.op = "makeCSRVectors", !.h = h,
                                 !.dimensions = dimensions,
                                 !.failed = W1.failed]
  /\ trace' = <<>>
  /\ UNCHANGED iterVars

MakeCSC(h, dimensions) ==
  /\ ~Constructed(h)
  /\ Vacant
  /\ \E W1 \in {makeCSC(World, h, dimensions,
                        UserBuffers[1], UserBuffers[2], UserBuffers[3])} :
       /\ Commit(W1)
       /\ lastOp' = [NoOp EXCEPT !.op = "makeCSC", !.h = h,
                                 !.dimensions = dimensions,
                                 !.failed = W1.failed]
  /\ trace' = <<>>
  /\ UNCHANGED iterVars

MakeCSCVectors(h, dimensions) ==
  /\ ~Constructed(h)
  /\ Vacant
  /\ \E W1 \in {makeCSCVectors(World, h, dimensions,
                               UserData(1), UserData(2), UserData(3))} :
       /\ Commit(W1)
       /\ lastOp' = [NoOp EXCEPT !.op = "makeCSCVectors", !.h = h,
                                 !.dimensions = dimensions,
                                 !.failed = W1.failed]
  /\ trace' = <<>>
  /\ UNCHANGED iterVars

GetCSRArrays(h) ==
  /\ Constructed(h)
  /\ \E W1 \in {getCSRArrays(World, h)} :
       /\ Commit(W1)
       /\ lastOp' = [NoOp EXCEPT !.op = "getCSRArrays", !.h = h,
                                 !.failed = W1.failed]
  /\ trace' = <<>>
  /\ UNCHANGED iterVars

GetCSCArrays(h) ==
  /\ Constructed(h)
  /\ \E W1 \in {getCSCArrays(World, h)} :
       /\ Commit(W1)
       /\ lastOp' = [NoOp EXCEPT !.op = "getCSCArrays", !.h = h,
                                 !.failed = W1.failed]
  /\ trace' = <<>>
  /\ UNCHANGED iterVars

\* the handle goes out of scope
Destroy(h) ==
  /\ Constructed(h)
  /\ \E W1 \in {destroyTensor(World, h)} : Commit(W1)
  /\ lastOp' = [NoOp EXCEPT !.op = "destroy", !.h = h]
  /\ trace' = <<>>
  /\ UNCHANGED iterVars

(***************************************************************************)
(* SpecPack: insertion and packing of A through its handle and a copy.     *)
(***************************************************************************)
Origin == [k \in 1..Order |-> 0]

\* the coordinates this specification inserts at: the first row
PackCoords == {c \in Coords : c[1] = 0}

NextPack ==
  \/ \E h \in {"a", "x"}, coordinate \in PackCoords, value \in Vals :
       Room(h, MaxRecords) /\ Insert(h, coordinate, value)
  \/ CopyHandle("a", "x")
  \/ \E h \in {"a", "x"} : Pack(h)

SpecPack == Init /\ [][NextPack]_vars

(***************************************************************************)
(* SpecBuffer: the coordinate buffer of A under insert, reserve and pack,  *)
(* through its handle and a copy.                                          *)
(***************************************************************************)
\* the buffer of h's tensor holds n records less than MaxCapacity
Spare(h, n) ==
  /\ content[h] # NoContent
  /\ Len(coordinateBuffer[content[h]]) + n * coordinateSize
       <= MaxCapacity * coordinateSize

NextBuffer ==
  \/ \E h \in {"a", "x"}, value \in Vals :
       Room(h, MaxBuffered) /\ Spare(h, 1) /\ Insert(h, Origin, value)
  \/ \E h \in {"a", "x"}, numCoordinates \in 1..MaxReserve :
       Spare(h, numCoordinates) /\ Reserve(h, numCoordinates)
  \/ CopyHandle("a", "x")
  \/ \E h \in {"a", "x"} : Pack(h)

SpecBuffer == Init /\ [][NextBuffer]_vars

(***************************************************************************)
(* SpecEval: the stages of B, whose assignment B(i,j) = A(i,j) reads A.    *)
(***************************************************************************)
\* the insertions and lookups the next two specifications draw: the
\* diagonal, value 1
EvalCoords == {c \in Coords : c[1] = c[2]}
EvalVals == {1}

NextEval ==
  \/ \E h \in {"a", "b"}, value \in EvalVals :
       Room(h, MaxPending) /\ Insert(h, Origin, value)
  \/ \E h \in {"a", "b"}, coordinate \in BadCoords \cup {Origin},
        ctype \in CTypes, value \in EvalVals :
       InsertRejected(h, coordinate, ctype, value)
  \/ \E h \in {"a", "b"} : Pack(h)
  \/ SetAssignment("b", "a")
  \/ Compile("b")
  \/ Assemble("b")
  \/ Compute("b")
  \/ \E h \in {"a", "b"} : Evaluate(h)

SpecEval == Init /\ [][NextEval]_vars

(***************************************************************************)
(* SpecRead: reads of A and of its dependent B between insertions.         *)
(***************************************************************************)
NextRead ==
  \/ \E coordinate \in EvalCoords, value \in EvalVals :
       Room("a", MaxPending) /\ Insert("a", coordinate, value)
  \/ Pack("a")
  \/ SetAssignment("b", "a")
  \/ \E h \in {"a", "b"}, coordinate \in EvalCoords : At(h, coordinate)
  \/ \E h \in {"a", "b"} : Iterate(h)
  \/ \E h \in {"a", "b"} : IterateConst(h)

SpecRead == Init /\ [][NextRead]_vars

(***************************************************************************)
(* SpecCSR: matrices made by the CSR/CSC factories from the caller's       *)
(* arrays, read back, copied and destroyed.                                *)
(***************************************************************************)
\* the arrays the caller holds: <<pointer array, index array, values>> of a
\* 2 x 2 matrix, the same three read as CSR or as CSC
CompressedInputs ==
  {<<(<<0, 2, 3>>), (<<0, 1, 1>>), (<<1, 2, 3>>)>>,
   <<(<<0, 0, 1>>), (<<0>>), (<<2>>)>>,
   <<(<<0, 0, 0>>), (<<>>), (<<>>)>>}

InitCSR ==
  /\ storage = [c \in Contents |-> <<>>]
  /\ needsPack = [c \in Contents |-> FALSE]
  /\ needsCompile = [c \in Contents |-> FALSE]
  /\ needsAssemble = [c \in Contents |-> FALSE]
  /\ needsCompute = [c \in Contents |-> FALSE]
  /\ assignment = [c \in Contents |-> NoHandle]
  /\ dependents = [c \in Contents |-> {}]
  /\ content = [h \in Handles |-> NoContent]
  /\ coordinateBuffer = [c \in Contents |-> <<>>]
  /\ coordinateBufferUsed = [h \in Handles |-> 0]
  /\ inserted = [c \in Contents |-> <<>>]
  /\ aliased = [c \in Contents |-> FALSE]
  /\ readSince = [c \in Contents |-> "no"]
  /\ trace = <<>>
  /\ format = [c \in Contents |-> "none"]
  /\ storageIndex = [c \in Contents |-> <<>>]
  /\ storageValues = [c \in Contents |-> NoArray]
  /\ \E given \in CompressedInputs :
       heap = [id \in Buffers |->
                 IF \E k \in 1..3 : UserBuffers[k] = id
                 THEN [data |-> given[CHOOSE k \in 1..3 : UserBuffers[k] = id],
                       allocated |-> TRUE, frees |-> 0]
                 ELSE NoBuffer]
  /\ out = <<Null, Null, Null>>
  /\ made = [c \in Contents |-> NoMade]
  /\ loop = NoLoop
  /\ dimension = [c \in Contents |-> <<>>]
  /\ modeTypes = [c \in Contents |-> <<>>]
  /\ helperFunctions = <<>>
  /\ kernel = [c \in Contents |-> NoHandle]
  /\ lastOp = NoOp
  /\ InitIters

NextCSR ==
  \/ \E h \in {"a", "b"}, dimensions \in DimLists : MakeCSR(h, dimensions)
  \/ \E dimensions \in DimLists : MakeCSRVectors("a", dimensions)
  \/ \E h \in {"a", "b"}, dimensions \in DimLists : MakeCSC(h, dimensions)
  \/ \E dimensions \in DimLists : MakeCSCVectors("a", dimensions)
  \/ \E h \in {"a", "b"} : GetCSRArrays(h)
  \/ \E h \in {"a", "b"} : GetCSCArrays(h)
  \/ \E h \in {"a", "b"}, coordinate \in Coords : At(h, coordinate)
  \/ \E from \in {"a", "b"} : CopyHandle(from, "x")
  \/ \E h \in UserHandles : Destroy(h)

SpecCSR == InitCSR /\ [][NextCSR]_vars

(***************************************************************************)
(* SpecStage: the stage methods called on A, which has no assignment, and  *)
(* on B, with a code generator that may fail.                              *)
(***************************************************************************)
CompileCall(h, generated) ==
  /\ Constructed(h)
  /\ \E W1 \in {compileCall(World, h, generated)} :
       /\ Commit(W1)
       /\ trace' = W1.trace
       /\ lastOp' = [NoOp EXCEPT !.op = "compile", !.h = h,
                                 !.failed = W1.failed]
  /\ UNCHANGED iterVars

AssembleCall(h) ==
  /\ Constructed(h)
  /\ \E W1 \in {assembleCall(World, h)} :
       /\ Commit(W1)
       /\ trace' = W1.trace
       /\ lastOp' = [NoOp EXCEPT !.op = "assemble", !.h = h,
                                 !.failed = W1.failed]
  /\ UNCHANGED iterVars

ComputeCall(h) ==
  /\ Constructed(h)
  /\ \E W1 \in {computeCall(World, h)} :
       /\ Commit(W1)
       /\ trace' = W1.trace
       /\ lastOp' = [NoOp EXCEPT !.op = "compute", !.h = h,
                                 !.failed = W1.failed]
  /\ UNCHANGED iterVars

EvaluateCall(h, generated) ==
  /\ Constructed(h)
  /\ \E W1 \in {evaluateGenerated(World, h, generated)} :
       /\ Commit(W1)
       /\ trace' = W1.trace
       /\ lastOp' = [NoOp EXCEPT !.op = "evaluate", !.h = h,
                                 !.failed = W1.failed]
  /\ UNCHANGED iterVars

NextStage ==
  \/ \E value \in EvalVals : Room("b", MaxPending) /\ Insert("b", Origin, value)
  \/ Pack("b")
  \/ SetAssignment("b", "a")
  \/ \E h \in {"a", "b"}, generated \in BOOLEAN : CompileCall(h, generated)
  \/ \E h \in {"a", "b"} : AssembleCall(h)
  \/ \E h \in {"a", "b"} : ComputeCall(h)
  \/ \E h \in {"a", "b"}, generated \in BOOLEAN : EvaluateCall(h, generated)

SpecStage == Init /\ [][NextStage]_vars

(***************************************************************************)
(* SpecCache: the helper functions requested for tensors of several        *)
(* formats, component types and dimensions, and by the iteration of A.     *)
(***************************************************************************)
HelperFormats == {"Dense", "CSR", "CSC"}
HelperDimensions == {<<2, 2>>, <<2>>}

\* TensorBase::getHelperFunctions(format, ctype, dimensions)
GetHelperFunctions(fmt, ctype, dims) ==
  /\ \E r \in {getHelperFunctions(World, fmt, ctype, dims)} :
       /\ Commit(r.W)
       /\ lastOp' = [NoOp EXCEPT !.op = "getHelperFunctions",
                                 !.format = fmt, !.ctype = ctype,
                                 !.dimensions = dims,
                                 !.value = r.module]
  /\ trace' = <<>>
  /\ UNCHANGED iterVars

\* the key is cached, or the cache holds fewer than MaxModules modules
ModuleRoom(fmt, ctype, dims) ==
  \/ Len(helperFunctions) < MaxModules
  \/ Cached(helperFunctions, fmt, ctype, dims) # 0

NextCache ==
  \/ \E fmt \in HelperFormats, ctype \in CTypes, dims \in HelperDimensions :
       ModuleRoom(fmt, ctype, dims) /\ GetHelperFunctions(fmt, ctype, dims)
  \/ ModuleRoom("Dense", ComponentType, Dimensions) /\ IterateConst("a")

SpecCache == Init /\ [][NextCache]_vars

(***************************************************************************)
(* SpecConstruct: tensors constructed from dimensions and a ModeFormat,    *)
(* with a name and without.                                                *)
(***************************************************************************)
\* Tensor<double> h(dimensions, modeType)
Tensor(h, dimensions, modeType) ==
  /\ ~Constructed(h)
  /\ Vacant
  /\ \E W1 \in {tensorUnnamed(World, h, dimensions, modeType)} : Commit(W1)
  /\ lastOp' = [NoOp EXCEPT !.op = "Tensor", !.h = h,
                            !.dimensions = dimensions, !.modeType = modeType]
  /\ trace' = <<>>
  /\ UNCHANGED iterVars

\* Tensor<double> h(name, dimensions, modeType)
TensorNamed(h, dimensions, modeType) ==
  /\ ~Constructed(h)
  /\ Vacant
  /\ \E W1 \in {tensorNamed(World, h, dimensions, modeType)} : Commit(W1)
  /\ lastOp' = [NoOp EXCEPT !.op = "TensorNamed", !.h = h,
                            !.dimensions = dimensions, !.modeType = modeType]
  /\ trace' = <<>>
  /\ UNCHANGED iterVars

NextConstruct ==
  \/ \E h \in {"a", "b"}, dimensions \in DimLists, modeType \in ModeFormats :
       Tensor(h, dimensions, modeType)
  \/ \E h \in {"a", "b"}, dimensions \in DimLists, modeType \in ModeFormats :
       TensorNamed(h, dimensions, modeType)
  \/ CopyHandle("a", "x")
  \/ \E h \in {"a", "b", "x"} : Destroy(h)

SpecConstruct == InitCSR /\ [][NextConstruct]_vars

(***************************************************************************)
(* SpecTranspose: a matrix A of some dimensions and records, inserted      *)
(* into and packed, and transposed into B.                                 *)
(***************************************************************************)
\* the permutations of the two modes
ModeOrderings == {<<0, 1>>, <<1, 0>>}
\* the dimensions of the source
SourceDimensions == {<<2, 2>>, <<2, 1>>, <<1, 2>>}

\* the records of a matrix that holds the coordinates S: in coordinate
\* order, the value at (i, j) being j + 1
RecordsAt(S) ==
  LET Held(r) == r.first \in S
  IN SelectSeq([k \in 1..(Dimensions[1] * Dimensions[2]) |->
                  Pair(<<(k - 1) \div Dimensions[2], (k - 1) % Dimensions[2]>>,
                       ((k - 1) % Dimensions[2]) + 1)], Held)

\* t.transpose(newModeOrdering): the format is that of t
Transpose(h, to, newModeOrdering) ==
  /\ Constructed(h)
  /\ ~Constructed(to)
  /\ Vacant
  /\ \E junk \in JunkPairs :
       \E W1 \in {transpose(World, h, to, newModeOrdering,
                            modeTypes[content[h]], junk)} :
          Commit(W1)
  /\ trace' = <<>>
  /\ lastOp' = [NoOp EXCEPT !.op = "transpose", !.h = h, !.to = to,
                            !.ordering = newModeOrdering]
  /\ UNCHANGED iterVars

InitTranspose ==
  /\ \E d \in SourceDimensions :
       \E S \in SUBSET {c \in Coords : \A k \in 1..Order : c[k] < d[k]} :
          /\ storage = [c \in Contents |-> IF c = "A" THEN RecordsAt(S) ELSE <<>>]
          /\ dimension = [c \in Contents |-> IF c = "A" THEN d ELSE <<>>]
  /\ needsPack = [c \in Contents |-> FALSE]
  /\ needsCompile = [c \in Contents |-> FALSE]
  /\ needsAssemble = [c \in Contents |-> FALSE]
  /\ needsCompute = [c \in Contents |-> FALSE]
  /\ assignment = [c \in Contents |-> NoHandle]
  /\ dependents = [c \in Contents |-> {}]
  /\ content = [h \in Handles |-> IF h = "a" THEN "A" ELSE NoContent]
  /\ coordinateBuffer = [c \in Contents |-> <<>>]
  /\ coordinateBufferUsed = [h \in Handles |-> 0]
  /\ inserted = [c \in Contents |-> <<>>]
  /\ aliased = [c \in Contents |-> FALSE]
  /\ readSince = [c \in Contents |-> "no"]
  /\ trace = <<>>
  /\ format = [c \in Contents |-> IF c = "A" THEN "Dense" ELSE "none"]
  /\ modeTypes = [c \in Contents |->
                    IF c = "A" THEN [k \in 1..Order |-> "dense"] ELSE <<>>]
  /\ storageIndex = [c \in Contents |-> <<>>]
  /\ storageValues = [c \in Contents |-> NoArray]
  /\ heap = [id \in Buffers |-> NoBuffer]
  /\ out = <<Null, Null, Null>>
  /\ made = [c \in Contents |-> NoMade]
  /\ helperFunctions = <<>>
  /\ kernel = [c \in Contents |-> NoHandle]
  /\ loop = NoLoop
  /\ lastOp = NoOp
  /\ InitIters

NextTranspose ==
  \/ \E value \in EvalVals :
       Room("a", MaxPending) /\ Insert("a", Origin, value)
  \/ Pack("a")
  \/ \E newModeOrdering \in ModeOrderings : Transpose("a", "b", newModeOrdering)

SpecTranspose == InitTranspose /\ [][NextTranspose]_vars

(***************************************************************************)
(* Operations on iterators.                                                *)
(***************************************************************************)
Iters == 1..NumIters

\* the contexts some iterator other than i references
HeldByOthers(i) == {iters[j].ctx : j \in {j \in Iters : j # i /\ iters[j].alive}}

\* shared_ptr bookkeeping: a context no iterator references is destroyed
Release(cs, its) ==
  [k \in Iters |->
     IF \E j \in Iters : its[j].alive /\ its[j].ctx = k THEN cs[k] ELSE NoContext]

FreshCtx(i) == CHOOSE k \in Iters : k \notin HeldByOthers(i)

StorageOf(it) == storage[content[it.tensor]]

\* a plausible slip: the tensors are not compared
EqAnyTensor(lhs, rhs) ==
  /\ isEnd(lhs) = isEnd(rhs)
  /\ (isEnd(lhs) \/ ctxs[lhs.ctx].curVal.first = ctxs[rhs.ctx].curVal.first)

\* operator==
Eq(lhs, rhs) ==
  /\ lhs.tensor = rhs.tensor
  /\ isEnd(lhs) = isEnd(rhs)
  /\ (isEnd(lhs) \/ ctxs[lhs.ctx].curVal.first = ctxs[rhs.ctx].curVal.first)

\* const_iterator(tensor): a new context, and the first advance
constructIter(i, h) ==
  \E junk \in JunkPairs :
    \E r \in {advance([NoIter EXCEPT !.alive = TRUE, !.tensor = h,
                                       !.ctx = FreshCtx(i)],
                       Context(junk, <<>>), FALSE, storage[content[h]])} :
       /\ iters' = [iters EXCEPT ![i] = r.it]
       /\ ctxs' = [ctxs EXCEPT ![r.it.ctx] = r.cx]

\* h.begin(): const_iterator(tensor), whose constructor advances once
Begin(i, h) ==
  /\ ~fault
  /\ ~iters[i].alive
  /\ Constructed(h)
  /\ constructIter(i, h)
  /\ \E W1 \in {helpersOf(World, h)} : Commit(W1)
  /\ trace' = trace
  /\ lastOp' = NoOp
  /\ fault' = fault

\* h.end(): const_iterator(tensor, true), no context
End(i, h) ==
  /\ ~fault
  /\ ~iters[i].alive
  /\ Constructed(h)
  /\ iters' = [iters EXCEPT ![i] = [NoIter EXCEPT !.alive = TRUE, !.tensor = h]]
  /\ lastOp' = NoOp
  /\ UNCHANGED <<ctxs, fault, tensorVars>>

\* the copy constructor: every member is copied, the context is shared
CopyIter(from, to) ==
  /\ ~fault
  /\ iters[from].alive
  /\ ~iters[to].alive
  /\ iters' = [iters EXCEPT ![to] = [iters[from] EXCEPT !.copyOf = from]]
  /\ lastOp' = NoOp
  /\ UNCHANGED <<ctxs, fault, tensorVars>>

\* advance() of iterator i, on a clone where its context is shared
advanceIter(i) ==
  \E r \in {advance(iters[i], ctxs[iters[i].ctx],
                     iters[i].ctx \in HeldByOthers(i), StorageOf(iters[i]))} :
    \E k \in {IF r.cloned THEN FreshCtx(i) ELSE iters[i].ctx} :
       /\ iters' = [iters EXCEPT ![i] = [r.it EXCEPT !.ctx = k]]
       /\ ctxs' = [ctxs EXCEPT ![k] = r.cx]

\* operator++ of an iterator that has a context
Advance(i) ==
  /\ ~fault
  /\ iters[i].alive
  /\ iters[i].ctx # 0
  /\ advanceIter(i)
  /\ lastOp' = [NoOp EXCEPT !.op = "advance", !.it = i,
                            !.again = isEnd(iters[i])]
  /\ fault' = fault
  /\ UNCHANGED tensorVars

\* operator++ of an end() iterator: fillBuffer dereferences the null
\* context; the process does not survive it
AdvanceNull(i) ==
  /\ ~fault
  /\ iters[i].alive
  /\ iters[i].ctx = 0
  /\ fault' = TRUE
  /\ lastOp' = [NoOp EXCEPT !.op = "advance", !.it = i, !.again = TRUE]
  /\ UNCHANGED <<iters, ctxs, tensorVars>>

\* lhs == rhs
Compare(i, j) ==
  /\ ~fault
  /\ iters[i].alive /\ iters[j].alive
  /\ lastOp' = [NoOp EXCEPT !.op = "compare", !.it = i, !.rhs = j,
                            !.equal = Eq(iters[i], iters[j])]
  /\ UNCHANGED <<iterVars, tensorVars>>

\* the destructor
Drop(i) ==
  /\ ~fault
  /\ iters[i].alive
  /\ \E its \in {[j \in Iters |->
                     IF j = i THEN NoIter
                     ELSE IF iters[j].copyOf = i THEN [iters[j] EXCEPT !.copyOf = 0]
                     ELSE iters[j]]} :
       /\ iters' = its
       /\ ctxs' = Release(ctxs, its)
  /\ lastOp' = NoOp
  /\ fault' = fault
  /\ UNCHANGED tensorVars

(***************************************************************************)
(* SpecIter: iterators over packed tensors A (handles a and x) and B.      *)
(***************************************************************************)
\* every coordinate in order, the value at (i, j) being j + 1
IterRecords ==
  [k \in 1..(Dimensions[1] * Dimensions[2]) |->
     Pair(<<(k - 1) \div Dimensions[2], (k - 1) % Dimensions[2]>>,
          ((k - 1) % Dimensions[2]) + 1)]

InitIter ==
  /\ \E m \in {0, 1} :
       storage = [c \in Contents |->
                    SubSeq(IterRecords, 1, IF c = "A" THEN Len(IterRecords) ELSE m)]
  /\ needsPack = [c \in Contents |-> FALSE]
  /\ needsCompile = [c \in Contents |-> FALSE]
  /\ needsAssemble = [c \in Contents |-> FALSE]
  /\ needsCompute = [c \in Contents |-> FALSE]
  /\ assignment = [c \in Contents |-> NoHandle]
  /\ dependents = [c \in Contents |-> {}]
  /\ content = [h \in Handles |->
                  IF h \in {"a", "x"} THEN "A"
                  ELSE IF h = "b" THEN "B" ELSE NoContent]
  /\ coordinateBuffer = [c \in Contents |-> <<>>]
  /\ coordinateBufferUsed = [h \in Handles |-> 0]
  /\ inserted = [c \in Contents |-> <<>>]
  /\ aliased = [c \in Contents |-> c = "A"]
  /\ readSince = [c \in Contents |-> "no"]
  /\ trace = <<>>
  /\ InitStorage
  /\ lastOp = NoOp
  /\ InitIters

\* the handles iterator i is taken from: the second from any, the others
\* from a
IterHandles(i) == IF i = 2 THEN UserHandles ELSE {"a"}

NextIter ==
  \/ \E i \in Iters : \E h \in IterHandles(i) : Begin(i, h)
  \/ \E i \in Iters : \E h \in IterHandles(i) : End(i, h)
  \/ \E i, j \in Iters : i < j /\ CopyIter(i, j)
  \/ \E i \in Iters : Advance(i)
  \/ \E i \in Iters : AdvanceNull(i)
  \/ \E i, j \in Iters : i < j /\ Compare(i, j)
  \/ \E i \in Iters : Drop(i)

SpecIter == InitIter /\ [][NextIter]_vars

(***************************************************************************)
(* SpecLoop: the loop `for (it = h.begin(); it != h.end(); ++it) body`     *)
(* over a packed tensor, one step at a time; `it` is iterator 1.           *)
(***************************************************************************)
\* h.end(), the temporary each test of the loop compares with
endOf(h) == [NoIter EXCEPT !.alive = TRUE, !.tensor = h]

\* it = h.begin()
LoopBegin(h) ==
  /\ loop.pc = "idle"
  /\ ~fault
  /\ ~iters[1].alive
  /\ Constructed(h)
  /\ constructIter(1, h)
  /\ \E W1 \in {helpersOf(World, h)} :
       Commit([W1 EXCEPT !.loop = [pc |-> "test", h |-> h, count |-> 0]])
  /\ trace' = trace
  /\ lastOp' = NoOp
  /\ fault' = fault

\* it != h.end()
LoopTest ==
  /\ loop.pc = "test"
  /\ Commit([World EXCEPT !.loop.pc =
               IF Eq(iters[1], endOf(loop.h)) THEN "done" ELSE "body"])
  /\ trace' = trace
  /\ lastOp' = [NoOp EXCEPT !.op = "compare", !.it = 1,
                            !.equal = Eq(iters[1], endOf(loop.h))]
  /\ UNCHANGED iterVars

\* the body, which reads *it
LoopBody ==
  /\ loop.pc = "body"
  /\ loop.count < MaxBody
  /\ Commit([World EXCEPT !.loop.pc = "incr", !.loop.count = @ + 1])
  /\ trace' = trace
  /\ lastOp' = [NoOp EXCEPT !.op = "body", !.it = 1,
                            !.coordinate = ctxs[iters[1].ctx].curVal.first,
                            !.value = ctxs[iters[1].ctx].curVal.second]
  /\ UNCHANGED iterVars

\* ++it
LoopIncr ==
  /\ loop.pc = "incr"
  /\ ~fault
  /\ iters[1].alive
  /\ iters[1].ctx # 0
  /\ advanceIter(1)
  /\ Commit([World EXCEPT !.loop.pc = "test"])
  /\ trace' = trace
  /\ lastOp' = [NoOp EXCEPT !.op = "advance", !.it = 1]
  /\ fault' = fault

InitLoop ==
  /\ \E m, n \in 0..Len(IterRecords) :
       storage = [c \in Contents |->
                    SubSeq(IterRecords, 1, IF c = "A" THEN m ELSE n)]
  /\ needsPack = [c \in Contents |-> FALSE]
  /\ needsCompile = [c \in Contents |-> FALSE]
  /\ needsAssemble = [c \in Contents |-> FALSE]
  /\ needsCompute = [c \in Contents |-> FALSE]
  /\ assignment = [c \in Contents |-> NoHandle]
  /\ dependents = [c \in Contents |-> {}]
  /\ content = [h \in Handles |->
                  IF h \in {"a", "x"} THEN "A"
                  ELSE IF h = "b" THEN "B" ELSE NoContent]
  /\ coordinateBuffer = [c \in Contents |-> <<>>]
  /\ coordinateBufferUsed = [h \in Handles |-> 0]
  /\ inserted = [c \in Contents |-> <<>>]
  /\ aliased = [c \in Contents |-> c = "A"]
  /\ readSince = [c \in Contents |-> "no"]
  /\ trace = <<>>
  /\ InitStorage
  /\ lastOp = NoOp
  /\ InitIters

NextLoop ==
  \/ \E h \in UserHandles : LoopBegin(h)
  \/ LoopTest
  \/ LoopBody
  \/ LoopIncr

\* the loop is the code of one thread, which takes its next step
SpecLoop == InitLoop /\ [][NextLoop]_vars /\ WF_vars(NextLoop)

(***************************************************************************)
(* Properties of insertion and packing (SpecPack).                         *)
(***************************************************************************)
RECURSIVE SumOver(_, _)
SumOver(records, ks) ==
  IF ks = {} THEN 0
  ELSE LET k == CHOOSE k \in ks : TRUE
       IN records[k].second + SumOver(records, ks \ {k})

\* the sum of the values a record sequence holds at a coordinate
SumAt(records, coordinate) ==
  SumOver(records, {k \in 1..Len(records) : records[k].first = coordinate})

Present(records, coordinate) ==
  \E k \in 1..Len(records) : records[k].first = coordinate

Permuted(records, p) == [k \in 1..Len(records) |-> records[p[k]]]

\* the step packs content c, which only one handle ever referenced
PacksUnaliased(c) == needsPack[c] /\ ~needsPack'[c] /\ ~aliased[c]

\* C1: a pack after a sequence of insertions through the tensor's handle
\* stores, at every coordinate inserted at, the sum of the values inserted
\* there and nothing at any other coordinate, and the packed storage is the
\* same for every permutation of the insertion sequence.
C1_PackSumsInsertions ==
  [][\A c \in Contents :
       PacksUnaliased(c) =>
         /\ \A coordinate \in Coords :
              /\ Present(storage'[c], coordinate) <=> Present(inserted[c], coordinate)
              /\ SumAt(storage'[c], coordinate) = SumAt(inserted[c], coordinate)
         /\ \A k \in 1..(Len(storage'[c]) - 1) :
              CoordLess(storage'[c][k].first, storage'[c][k + 1].first)
         /\ \A p \in Permutations(1..Len(inserted[c])) :
              PackKernel(Permuted(inserted[c], p)) = storage'[c]]_vars

\* two insertions at one coordinate were packed to their sum
C1_Witness ==
  /\ ~aliased["A"]
  /\ ~needsPack["A"]
  /\ \E k \in 1..Len(storage["A"]) : storage["A"][k].second = 3

\* C2 (as claimed): through every handle of a tensor, the records pending in
\* the coordinate buffer are exactly the records inserted since the last
\* pack, so that no record is lost, the handles agree on the count and a
\* pack through any of them stores all of them.
C2_AliasesSeeEveryInsertion ==
  \A h \in UserHandles :
    Constructed(h) =>
      BufferRecords(coordinateBuffer[content[h]], coordinateBufferUsed[h])
        = inserted[content[h]]

(***************************************************************************)
(* Properties of reads (SpecRead).                                         *)
(***************************************************************************)
\* C3 (as claimed): no read, through a const or a non-const overload,
\* observes the storage of a tensor while one of its need-flags is set.
C3_ReadsNeverSeePendingStage == ~lastOp.pending

(***************************************************************************)
(* Properties of evaluate (SpecEval).                                      *)
(***************************************************************************)
\* the stages an operation ran on content c, in the order they ran
StagesOf(tr, c) ==
  LET own == SelectSeq(tr, LAMBDA e : e[1] = c)
  IN [k \in 1..Len(own) |-> own[k][2]]

When(cond, stage) == IF cond THEN <<stage>> ELSE <<>>

\* from the flags before the call: the stages flagged, and assemble and
\* compute when the pack of this call flags them, in the fixed order
ExpectedStages(c) ==
  LET repack == needsPack[c] /\ assignment[c] # NoHandle
  IN When(needsPack[c], "pack") \o When(needsCompile[c], "compile")
     \o When(needsAssemble[c] \/ repack, "assemble")
     \o When(needsCompute[c] \/ repack, "compute")

Reads(b, c) == assignment[b] # NoHandle /\ content[assignment[b]] = c

HasContext(i) == iters[i].alive /\ iters[i].ctx # 0

\* what *it returns
Deref(i) == ctxs[iters[i].ctx].curVal

\* the index in storage of the record the iterator is at
Position(it) == ctxs[it.ctx].iterCtx[1] - it.bufferSize + it.bufferPos + 1

CurrentRecord(it) == StorageOf(it)[Position(it)]

\* the pairs the iterator yields from here on, by its own advances
Remaining(i) == Yielded(iters[i], ctxs[iters[i].ctx], StorageOf(iters[i]))

\* C7: an advance of one iterator changes, of every other iterator (a copy
\* of it or the iterator it was copied from included), neither the
\* position, nor the pair it dereferences to, nor the pairs it yields on
\* its own later advances.
C7_AdvanceLeavesOtherIterators ==
  [][lastOp'.op = "advance" =>
       \A j \in Iters \ {lastOp'.it} :
         iters[j].alive =>
           /\ iters'[j] = iters[j]
           /\ iters[j].ctx # 0 =>
                /\ ctxs'[iters'[j].ctx].curVal = Deref(j)
                /\ Yielded(iters'[j], ctxs'[iters'[j].ctx], StorageOf(iters[j]))
                     = Remaining(j)]_vars

\* an iterator and its copy, one advanced past the other, both still
\* yielding
C7_Witness ==
  /\ lastOp.op = "advance"
  /\ \E j \in Iters \ {lastOp.it} :
       /\ iters[j].copyOf = lastOp.it \/ iters[lastOp.it].copyOf = j
       /\ HasContext(j) /\ HasContext(lastOp.it)
       /\ ~isEnd(iters[j]) /\ ~isEnd(iters[lastOp.it])
       /\ Position(iters[j]) # Position(iters[lastOp.it])

SameCoordinate(lhs, rhs) ==
  /\ ~isEnd(lhs) /\ ~isEnd(rhs)
  /\ CurrentRecord(lhs).first = CurrentRecord(rhs).first

\* C8 (as claimed): two iterators compare equal iff both are at end, or
\* both are of the same tensor and at the same coordinate.
C8_EqualIffBothEndOrSameCoordinate ==
  lastOp.op = "compare" =>
    (lastOp.equal <=>
       \/ isEnd(iters[lastOp.it]) /\ isEnd(iters[lastOp.rhs])
       \/ /\ iters[lastOp.it].tensor = iters[lastOp.rhs].tensor
          /\ SameCoordinate(iters[lastOp.it], iters[lastOp.rhs]))

\* C8 (amended): two iterators compare equal iff they were taken from the
\* same TensorBase object and either both are at end or neither is and both
\* are at the same coordinate; at-end iterators of different tensor objects
\* are unequal.
C8_EqualIffSameTensorAndPlace ==
  lastOp.op = "compare" =>
    (lastOp.equal <=>
       /\ iters[lastOp.it].tensor = iters[lastOp.rhs].tensor
       /\ \/ isEnd(iters[lastOp.it]) /\ isEnd(iters[lastOp.rhs])
          \/ SameCoordinate(iters[lastOp.it], iters[lastOp.rhs]))

\* two at-end iterators of different tensor objects were compared
C8_Witness ==
  /\ lastOp.op = "compare"
  /\ isEnd(iters[lastOp.it]) /\ isEnd(iters[lastOp.rhs])
  /\ iters[lastOp.it].tensor # iters[lastOp.rhs].tensor
  /\ ~lastOp.equal

\* C9: an iterator that is at end because the iteration kernel returned no
\* record stays at end over every further advance.
C9_EndIsPermanent ==
  [][\A i \in Iters :
       (HasContext(i) /\ isEnd(iters[i]) /\ iters'[i].alive) =>
         isEnd(iters'[i])]_vars

\* an iterator over a tensor with records was advanced when already at end
C9_Witness ==
  /\ lastOp.op = "advance"
  /\ lastOp.again
  /\ HasContext(lastOp.it)
  /\ isEnd(iters[lastOp.it])
  /\ StorageOf(iters[lastOp.it]) # <<>>

\* C10: at() of the coordinate an iterator dereferences to returns the
\* value it dereferences to.
C10_AtReturnsYieldedValue ==
  \A i \in Iters :
    (HasContext(i) /\ ~isEnd(iters[i])) =>
      \A junk \in JunkPairs :
        at(World, iters[i].tensor, Deref(i).first, junk).value = Deref(i).second

\* an iterator at the second record of a row
C10_Witness ==
  \E i \in Iters :
    /\ HasContext(i) /\ ~isEnd(iters[i])
    /\ Deref(i) = Pair(<<0, 1>>, 2)

(***************************************************************************)
(* Properties of at (SpecRead).                                            *)
(***************************************************************************)
\* C11: at() of a coordinate of the right arity returns the stored value
\* when storage holds the coordinate and 0 when it does not; it does not
\* fail.
C11_AtReturnsStoredValueOrZero ==
  lastOp.op = "at" =>
    /\ ~lastOp.failed
    /\ lastOp.value =
         IF Present(storage[content[lastOp.h]], lastOp.coordinate)
         THEN SumAt(storage[content[lastOp.h]], lastOp.coordinate)
         ELSE 0

\* at() of a coordinate absent from a storage that holds another one
C11_Witness ==
  /\ lastOp.op = "at"
  /\ storage[content[lastOp.h]] # <<>>
  /\ ~Present(storage[content[lastOp.h]], lastOp.coordinate)
  /\ lastOp.value = 0

(***************************************************************************)
(* Properties of insert (SpecEval).                                        *)
(***************************************************************************)
\* C12: an insert whose coordinate has the wrong length or whose value has
\* the wrong type fails and changes nothing: the buffer, every used offset,
\* the flags, storage and the dependent sets are as before, and no stage of
\* any dependent has run.
C12_RejectedInsertChangesNothing ==
  [][(lastOp'.op = "insert" /\ lastOp'.failed) =>
       /\ UNCHANGED <<coordinateBuffer, coordinateBufferUsed, needsPack,
                      needsCompile, needsAssemble, needsCompute, storage,
                      assignment, dependents, content, inserted>>
       /\ trace' = <<>>]_vars

\* a rejected insert into a tensor whose dependent is still to be computed
C12_Witness ==
  /\ lastOp.op = "insert"
  /\ lastOp.failed
  /\ dependents[content[lastOp.h]] # {}
  /\ \E d \in dependents[content[lastOp.h]] : needsCompute[content[d]]

(***************************************************************************)
(* Properties of the coordinate buffer (SpecBuffer).                       *)
(***************************************************************************)
\* C13: in every state insert, reserve and pack reach, the used offset of
\* every handle is at most the size of its tensor's buffer and is a
\* multiple of the record size.
C13_UsedWithinCapacity ==
  \A h \in Handles :
    Constructed(h) =>
      /\ coordinateBufferUsed[h] <= Len(coordinateBuffer[content[h]])
      /\ coordinateBufferUsed[h] % coordinateSize = 0

\* a full buffer: an insert that had to grow it has just filled it
C13_Witness ==
  /\ lastOp.op = "insert"
  /\ ~lastOp.failed
  /\ lastOp.size < Len(coordinateBuffer[content[lastOp.h]])
  /\ coordinateBufferUsed[lastOp.h] = Len(coordinateBuffer[content[lastOp.h]])
  /\ coordinateBufferUsed[lastOp.h] >= 2 * coordinateSize

\* the step is a successful insert through the handle lastOp' names
InsertStep == lastOp'.op = "insert" /\ ~lastOp'.failed

\* the room after the used offset of h is less than one record
ShortOfRoom(h) ==
  Len(coordinateBuffer[content[h]]) - coordinateBufferUsed[h] < coordinateSize

\* C14 as stated: an insert that finds the room short grows the buffer to
\* at least twice its size, and no step shrinks a buffer.
C14_GrowthDoubles ==
  [][/\ (InsertStep /\ ShortOfRoom(lastOp'.h)) =>
          /\ Len(coordinateBuffer'[content[lastOp'.h]])
               > Len(coordinateBuffer[content[lastOp'.h]])
          /\ Len(coordinateBuffer'[content[lastOp'.h]])
               >= 2 * Len(coordinateBuffer[content[lastOp'.h]])
     /\ \A c \in Contents : Len(coordinateBuffer'[c]) >= Len(coordinateBuffer[c])
    ]_vars

\* C14 as the code has it: an insert that finds the room short grows the
\* buffer by exactly one record, any other insert leaves its size, and no
\* step shrinks a buffer.
C14_GrowthByOneRecord ==
  [][/\ InsertStep =>
          Len(coordinateBuffer'[content[lastOp'.h]]) =
            IF ShortOfRoom(lastOp'.h)
            THEN Len(coordinateBuffer[content[lastOp'.h]]) + coordinateSize
            ELSE Len(coordinateBuffer[content[lastOp'.h]])
     /\ \A c \in Contents : Len(coordinateBuffer'[c]) >= Len(coordinateBuffer[c])
    ]_vars

\* an insert has grown a buffer of two records to three
C14_Witness ==
  /\ lastOp.op = "insert"
  /\ ~lastOp.failed
  /\ lastOp.size = 2 * coordinateSize
  /\ Len(coordinateBuffer[content[lastOp.h]]) = 3 * coordinateSize

\* C15: a successful insert through a handle writes one record, the
\* coordinate followed by the value, at the handle's used offset, advances
\* that offset by one record size, sets needsPack, leaves every slot of the
\* buffer outside the new record as it was (the records below the offset
\* among them), leaves every other used offset, and leaves storage as it was.
C15_InsertAppendsOneRecord ==
  [][InsertStep =>
       LET h == lastOp'.h
           c == content[h]
           used == coordinateBufferUsed[h]
       IN /\ RecordAt(coordinateBuffer'[c], used \div coordinateSize)
               = Pair(lastOp'.coordinate, lastOp'.value)
          /\ coordinateBufferUsed' =
               [coordinateBufferUsed EXCEPT ![h] = used + coordinateSize]
          /\ needsPack'[c]
          /\ \A k \in 1..Len(coordinateBuffer[c]) :
               (k <= used \/ k > used + coordinateSize) =>
                 coordinateBuffer'[c][k] = coordinateBuffer[c][k]
          /\ storage' = storage]_vars

\* a third record was inserted behind two that differ from each other
C15_Witness ==
  /\ lastOp.op = "insert"
  /\ ~lastOp.failed
  /\ coordinateBufferUsed[lastOp.h] = 3 * coordinateSize
  /\ RecordAt(coordinateBuffer[content[lastOp.h]], 0)
       # RecordAt(coordinateBuffer[content[lastOp.h]], 1)
  /\ storage[content[lastOp.h]] # <<>>

(***************************************************************************)
(* Properties of pack and of the synchronization in insert (SpecEval).     *)
(***************************************************************************)
\* C16: after pack() through a handle the handle's used offset is 0,
\* needsPack of the tensor is false, and needsAssemble and needsCompute are
\* set exactly when the tensor has an assignment.
C16_PackClearsBufferAndFlags ==
  lastOp.op = "pack" =>
    LET c == content[lastOp.h]
    IN /\ coordinateBufferUsed[lastOp.h] = 0
       /\ ~needsPack[c]
       /\ needsAssemble[c] <=> assignment[c] # NoHandle
       /\ needsCompute[c] <=> assignment[c] # NoHandle

\* a pack of a tensor with an assignment, compiled before, that stored a
\* record
C16_Witness ==
  /\ lastOp.op = "pack"
  /\ assignment[content[lastOp.h]] # NoHandle
  /\ ~needsCompile[content[lastOp.h]]
  /\ needsAssemble[content[lastOp.h]]
  /\ needsCompute[content[lastOp.h]]
  /\ storage[content[lastOp.h]] # <<>>

\* C17: on a successful insert into T every tensor of T's dependent set is
\* evaluated to completion on the state T had before the insertion, and
\* only then is the record written and needsPack set: the stages that ran,
\* the storage of T and of its dependents are those of
\* syncDependentTensors() on the state before the call, the dependents have
\* no need-flag left, and the record is written into the buffer as the
\* synchronization left it.
C17_DependentsSyncedBeforeWrite ==
  [][InsertStep =>
       \E S \in {syncDependentTensors(World, lastOp'.h)} :
         LET h == lastOp'.h
             c == content[h]
         IN /\ trace' = S.trace
            /\ \A d \in dependents[c] :
                 /\ storage'[content[d]] = S.storage[content[d]]
                 /\ ~(needsPack'[content[d]] \/ needsCompile'[content[d]]
                      \/ needsAssemble'[content[d]] \/ needsCompute'[content[d]])
            /\ dependents'[c] = {}
            /\ storage'[c] = S.storage[c]
            /\ coordinateBuffer'[c] =
                 writeRecord(S.coordinateBuffer[c], S.coordinateBufferUsed[h],
                             lastOp'.coordinate, lastOp'.value)
            /\ needsPack'[c]]_vars

\* an insert into A during which its dependent B was computed
C17_Witness ==
  /\ lastOp.op = "insert"
  /\ ~lastOp.failed
  /\ lastOp.h = "a"
  /\ \E k \in 1..Len(trace) : trace[k] = <<"B", "compute">>
  /\ needsPack["A"]
  /\ dependents["A"] = {}

(***************************************************************************)
(* Properties of the CSR/CSC factories and accessors (SpecCSR).            *)
(***************************************************************************)
\* the value a CSR matrix given as three arrays holds at a coordinate
CSRValueAt(m, coordinate) ==
  LET ps == {p \in (m.ptr[coordinate[1] + 1] + 1)..m.ptr[coordinate[1] + 2] :
               m.idx[p] = coordinate[2]}
  IN IF ps = {} THEN 0 ELSE m.vals[CHOOSE p \in ps : \A q \in ps : p <= q]

\* C18: getCSRArrays of a tensor made by makeCSR returns arrays equal,
\* element by element, to the ones the factory was given, and the caller's
\* own buffers where the factory was given pointers; at(i, j) returns the
\* value the arrays hold at (i, j) and 0 where they hold none.
C18_CSRRoundTrip ==
  /\ (lastOp.op = "getCSRArrays" /\ ~lastOp.failed) =>
       LET m == made[content[lastOp.h]]
       IN /\ m.factory \in {"makeCSR", "makeCSRVectors"}
          /\ \A k \in 1..3 : out[k] # Null /\ heap[out[k]].allocated
          /\ heap[out[1]].data = m.ptr
          /\ heap[out[2]].data = m.idx
          /\ heap[out[3]].data = m.vals
          /\ m.factory = "makeCSR" => out = UserBuffers
  /\ (lastOp.op = "at" /\ format[content[lastOp.h]] = "CSR") =>
       lastOp.value = CSRValueAt(made[content[lastOp.h]], lastOp.coordinate)

\* the arrays of the matrix ((1, 2), (0, 3)), given by pointer, are read
\* back
C18_Witness ==
  /\ lastOp.op = "getCSRArrays"
  /\ ~lastOp.failed
  /\ made[content[lastOp.h]].factory = "makeCSR"
  /\ heap[out[1]].data = <<0, 2, 3>>
  /\ heap[out[2]].data = <<0, 1, 1>>
  /\ heap[out[3]].data = <<1, 2, 3>>

\* some handle references content c
Referenced(c) == \E h \in Handles : content[h] = c

\* C19: the arrays given by pointer to makeCSR / makeCSC are tagged
\* UserOwns and are never freed, not even when the last handle of the
\* tensor is gone, and never written; the buffers a storage allocated for
\* itself are freed once, when the last handle is gone, and not before.
C19_CallerArraysNeverFreed ==
  /\ [](/\ \A k \in 1..3 :
             /\ heap[UserBuffers[k]].allocated
             /\ heap[UserBuffers[k]].frees = 0
        /\ \A c \in Contents :
             /\ (made[c].factory \in {"makeCSR", "makeCSC"} /\ Referenced(c)) =>
                  /\ storageValues[c] = makeArray(UserBuffers[3], "UserOwns")
                  /\ storageIndex[c] = <<makeArray(UserBuffers[1], "UserOwns"),
                                         makeArray(UserBuffers[2], "UserOwns")>>
             /\ made[c].factory \in {"makeCSRVectors", "makeCSCVectors"} =>
                  \A k \in 1..3 :
                    /\ heap[Allocated[c][k]].allocated <=> Referenced(c)
                    /\ heap[Allocated[c][k]].frees = IF Referenced(c) THEN 0 ELSE 1)
  /\ [][\A k \in 1..3 : heap'[UserBuffers[k]] = heap[UserBuffers[k]]]_vars

\* the last handles of a tensor over the caller's arrays and of a tensor
\* with arrays of its own are gone
C19_Witness ==
  /\ lastOp.op = "destroy"
  /\ \E c \in Contents :
       made[c].factory \in {"makeCSR", "makeCSC"} /\ ~Referenced(c)
  /\ \E c \in Contents :
       /\ made[c].factory \in {"makeCSRVectors", "makeCSCVectors"}
       /\ ~Referenced(c)
       /\ heap[Allocated[c][3]].frees = 1
  /\ heap[UserBuffers[3]].data # <<>>

\* the step leaves the output pointers, every storage and every handle
StorageUntouched ==
  UNCHANGED <<out, storage, storageIndex, storageValues, heap, format,
              content, made>>

Factories == {"makeCSR", "makeCSRVectors", "makeCSC", "makeCSCVectors"}

\* C20: getCSRArrays of a tensor whose format is not CSR, getCSCArrays of
\* one whose format is not CSC, and a factory given a dimension list whose
\* length is not 2 fail; a call that fails writes none of its output
\* pointers, makes no tensor and leaves every storage as it was.
C20_FormatAndShapeChecked ==
  [][/\ (lastOp'.op = "getCSRArrays" /\ format[content[lastOp'.h]] # "CSR") =>
          lastOp'.failed
     /\ (lastOp'.op = "getCSCArrays" /\ format[content[lastOp'.h]] # "CSC") =>
          lastOp'.failed
     /\ (lastOp'.op \in Factories /\ Len(lastOp'.dimensions) # 2) =>
          lastOp'.failed
     /\ (lastOp'.op \in Factories \cup {"getCSRArrays", "getCSCArrays"}
           /\ lastOp'.failed) => StorageUntouched
    ]_vars

\* getCSRArrays of a CSC tensor failed; the output pointers hold what an
\* earlier call wrote
C20_Witness ==
  /\ lastOp.op = "getCSRArrays"
  /\ lastOp.failed
  /\ format[content[lastOp.h]] = "CSC"
  /\ out = UserBuffers
  /\ made[content[lastOp.h]].factory = "makeCSCVectors"

(***************************************************************************)
(* Properties of the stage methods (SpecStage).                            *)
(***************************************************************************)
\* the last call was a compile or an evaluate in which the code generator
\* failed: it failed on a tensor that has its assignment
GeneratorFailed ==
  /\ lastOp.op \in {"compile", "evaluate"}
  /\ lastOp.failed
  /\ assignment[content[lastOp.h]] # NoHandle

StageWithoutAssignment ==
  /\ lastOp.op \in {"compile", "assemble", "compute"}
  /\ assignment[content[lastOp.h]] = NoHandle

\* C22: compile(), assemble() or compute() on a tensor with no assignment
\* fails immediately, runs no kernel, and leaves the need-flags and the
\* storage unchanged
C22_StageWithoutAssignmentFails ==
  [][StageWithoutAssignment' =>
       /\ lastOp'.failed
       /\ trace' = <<>>
       /\ needsPack' = needsPack
       /\ needsCompile' = needsCompile
       /\ needsAssemble' = needsAssemble
       /\ needsCompute' = needsCompute
       /\ storage' = storage
       /\ kernel' = kernel]_vars

\* assemble was called on A, which has no assignment, while B waits for
\* its stages
C22_Witness ==
  /\ StageWithoutAssignment
  /\ lastOp.op = "assemble"
  /\ lastOp.failed
  /\ \E c \in Contents : needsCompute[c]

(***************************************************************************)
(* Properties of the helper cache (SpecCache).                             *)
(***************************************************************************)
SameKey(e, f) ==
  /\ e.format = f.format
  /\ e.ctype = f.ctype
  /\ e.dimensions = f.dimensions

\* C23: the helper-kernel cache is append-only and memoizing: a request
\* for a (format, datatype, dimensions) key that has an entry returns the
\* module of that entry and generates none, the cache holds at most one
\* entry for each key, and no entry is ever removed or replaced
C23_HelperCacheMemoizes ==
  /\ [](\A j, k \in 1..Len(helperFunctions) :
          SameKey(helperFunctions[j], helperFunctions[k]) => j = k)
  /\ [][/\ Len(helperFunctions') >= Len(helperFunctions)
         /\ SubSeq(helperFunctions', 1, Len(helperFunctions)) = helperFunctions
         /\ lastOp'.op = "getHelperFunctions" =>
              \E k \in {Cached(helperFunctions, lastOp'.format, lastOp'.ctype,
                               lastOp'.dimensions)} :
                 IF k # 0
                 THEN /\ helperFunctions' = helperFunctions
                      /\ lastOp'.value = helperFunctions[k].module
                 ELSE /\ Len(helperFunctions') = Len(helperFunctions) + 1
                      /\ lastOp'.value =
                           helperFunctions'[Len(helperFunctions')].module
                      /\ \A j \in 1..Len(helperFunctions) :
                           helperFunctions[j].module # lastOp'.value]_vars

\* the first key was requested again after a second module was generated,
\* and the first module was returned
C23_Witness ==
  /\ lastOp.op = "getHelperFunctions"
  /\ Len(helperFunctions) = MaxModules
  /\ lastOp.value = 1
  /\ SameKey(helperFunctions[1], lastOp)

(***************************************************************************)
(* Properties of the constructors (SpecConstruct).                         *)
(***************************************************************************)
\* C24: a Tensor<CType> constructed from (dimensions, modeType), with a
\* name or without, stores every mode in the given modeType (compressed
\* when the argument is left at its default), so that both constructors
\* make the same format from the same modeType
C24_EveryModeInGivenModeType ==
  [][lastOp'.op \in {"Tensor", "TensorNamed"} =>
       modeTypes'[content'[lastOp'.h]] =
         [k \in 1..Len(lastOp'.dimensions) |-> lastOp'.modeType]]_vars

(***************************************************************************)
(* Properties of the iterator's contexts and batches (SpecIter).           *)
(***************************************************************************)
\* the iterators alive that reference context k
Sharing(k) == {j \in Iters : iters[j].alive /\ iters[j].ctx = k}

\* C25: iteration contexts are copy-on-write: copy-constructing an
\* iterator aliases the context and clones nothing; advance() on a context
\* that another iterator references works on a clone of the whole context
\* (both buffers and the iteration state) and leaves the shared one as it
\* was; advance() on an unshared context works in place; and a context
\* that more than one iterator references is never mutated
C25_ContextsCopyOnWrite ==
  [][/\ \A j \in Iters :
          (~iters[j].alive /\ iters'[j].alive /\ iters'[j].copyOf # 0) =>
             /\ iters'[j].ctx = iters[iters'[j].copyOf].ctx
             /\ ctxs' = ctxs
     /\ \A k \in Iters : Cardinality(Sharing(k)) > 1 => ctxs'[k] = ctxs[k]
     /\ (lastOp'.op = "advance" /\ ~fault') =>
          \E i \in {lastOp'.it} :
             \E r \in {advanceOwn(iters[i], ctxs[iters[i].ctx],
                                  StorageOf(iters[i]))} :
                /\ ctxs'[iters'[i].ctx] = r.cx
                /\ IF iters[i].ctx \in HeldByOthers(i)
                   THEN iters'[i].ctx \notin HeldByOthers(i)
                   ELSE iters'[i].ctx = iters[i].ctx]_vars

\* an iterator and its copy, one of them advanced into the next batch on a
\* context of its own
C25_Witness ==
  /\ lastOp.op = "advance"
  /\ ~fault
  /\ \E j \in Iters \ {lastOp.it} :
       /\ iters[j].alive /\ iters[lastOp.it].alive
       /\ iters[j].copyOf = lastOp.it \/ iters[lastOp.it].copyOf = j
       /\ iters[j].ctx # 0 /\ iters[lastOp.it].ctx # 0
       /\ iters[j].ctx # iters[lastOp.it].ctx
       /\ ctxs[iters[j].ctx].iterCtx # ctxs[iters[lastOp.it].ctx].iterCtx

\* the iteration state of i's context: the records the kernel has returned
\* over its calls
Returned(it, cs) == cs[it.ctx].iterCtx[1]

\* C26: an iterator taken from begin() and advanced dereferences to the
\* concatenation of the batches the kernel returns over its calls: it
\* starts at the first record, every advance moves it to the next record
\* in the kernel's order, none is skipped or repeated where one batch ends
\* and the next begins, it is at end only when every record was yielded,
\* and the kernel is called only when the current batch is exhausted
C26_YieldsBatchesInOrder ==
  /\ [](\A i \in Iters :
          HasContext(i) =>
            IF isEnd(iters[i])
            THEN Returned(iters[i], ctxs) = Len(StorageOf(iters[i]))
            ELSE Remaining(i) = SubSeq(StorageOf(iters[i]), Position(iters[i]),
                                       Len(StorageOf(iters[i]))))
  /\ [][\A i \in Iters :
          /\ (~iters[i].alive /\ iters'[i].alive /\ iters'[i].ctx # 0
                 /\ iters'[i].copyOf = 0 /\ ~isEnd(iters'[i])) =>
               /\ ctxs'[iters'[i].ctx].iterCtx[1] - iters'[i].bufferSize
                    + iters'[i].bufferPos + 1 = 1
               /\ ctxs'[iters'[i].ctx].curVal = StorageOf(iters'[i])[1]
          /\ (lastOp'.op = "advance" /\ lastOp'.it = i /\ HasContext(i)
                 /\ ~isEnd(iters[i])) =>
               /\ IF isEnd(iters'[i])
                  THEN Position(iters[i]) = Len(StorageOf(iters[i]))
                  ELSE /\ Returned(iters'[i], ctxs') - iters'[i].bufferSize
                            + iters'[i].bufferPos + 1 = Position(iters[i]) + 1
                       /\ ctxs'[iters'[i].ctx].curVal =
                            StorageOf(iters[i])[Position(iters[i]) + 1]
               /\ (\/ Returned(iters'[i], ctxs') # Returned(iters[i], ctxs)
                   \/ iters'[i].bufferSize # iters[i].bufferSize) =>
                    iters[i].bufferPos + 1 >= iters[i].bufferSize]_vars

\* an iterator was advanced from the last record of one batch to the first
\* record of the next
C26_Witness ==
  /\ lastOp.op = "advance"
  /\ HasContext(lastOp.it)
  /\ ~isEnd(iters[lastOp.it])
  /\ iters[lastOp.it].bufferPos = 0
  /\ Position(iters[lastOp.it]) = BufferCapacity + 1
  /\ Deref(lastOp.it) = StorageOf(iters[lastOp.it])[BufferCapacity + 1]

\* entry k of the buffers of i's context
Buffered(i, k) ==
  Pair(ctxs[iters[i].ctx].coordBuffer[k], ctxs[iters[i].ctx].valBuffer[k])

\* the index in storage of the record the kernel wrote to entry k in its
\* most recent batch
WrittenFrom(i, k) == Returned(iters[i], ctxs) - iters[i].bufferSize + k

\* C28: of every iterator that is not at end, after its construction and
\* after every advance, 0 <= bufferPos < bufferSize <= bufferCapacity, and
\* the record it dereferences to is the entry at bufferPos, one of those
\* the kernel wrote in its most recent batch; of an iterator at end,
\* bufferSize = 0 and bufferPos = 0
C28_PositionWithinBatch ==
  \A i \in Iters :
    iters[i].alive =>
      IF isEnd(iters[i])
      THEN iters[i].bufferSize = 0 /\ iters[i].bufferPos = 0
      ELSE /\ 0 <= iters[i].bufferPos
           /\ iters[i].bufferPos < iters[i].bufferSize
           /\ iters[i].bufferSize <= BufferCapacity
           /\ iters[i].ctx # 0
           /\ Deref(i) = Buffered(i, iters[i].bufferPos + 1)
           /\ \A k \in 1..iters[i].bufferSize :
                /\ WrittenFrom(i, k) \in 1..Len(StorageOf(iters[i]))
                /\ Buffered(i, k) = StorageOf(iters[i])[WrittenFrom(i, k)]

\* an iterator is at the only record of a batch that does not fill the
\* buffers, and another is at end after its advances
C28_Witness ==
  /\ \E i \in Iters :
       /\ HasContext(i) /\ ~isEnd(iters[i])
       /\ iters[i].bufferSize < BufferCapacity
       /\ iters[i].bufferPos = iters[i].bufferSize - 1
  /\ \E i \in Iters :
       /\ HasContext(i) /\ isEnd(iters[i])
       /\ StorageOf(iters[i]) # <<>>

(***************************************************************************)
(* Properties of the loop over a tensor (SpecLoop).                        *)
(***************************************************************************)
\* C27: the loop from begin() to end() of one tensor handle over a tensor
\* of N stored records runs its body exactly N times and then exits; over
\* an empty tensor begin() equals end() and the body does not run
C27_LoopRunsBodyOncePerRecord ==
  /\ [](loop.pc = "done" =>
          loop.count = Len(storage[content[loop.h]]))
  /\ [](loop.h # NoHandle =>
          loop.count <= Len(storage[content[loop.h]]))
  /\ <>(loop.pc = "done")

\* a loop over a tensor of more records than a batch holds has exited
C27_Witness ==
  /\ loop.pc = "done"
  /\ loop.count > BufferCapacity
  /\ loop.count = Len(storage[content[loop.h]])

(***************************************************************************)
(* Properties of transpose (SpecTranspose).                                *)
(***************************************************************************)
\* the inverse of a permutation of the modes 0 .. n-1
Inverse(newModeOrdering) ==
  [k \in 1..Len(newModeOrdering) |->
     (CHOOSE j \in 1..Len(newModeOrdering) : newModeOrdering[j] = k - 1) - 1]

\* the tensors once handle h, the only one of its tensor, is gone and its
\* content is free for another tensor
Vacated(W, h) ==
  LET c == W.content[h]
  IN [destroyHandle(W, h) EXCEPT !.format[c] = "none",
                                 !.storage[c] = <<>>,
                                 !.coordinateBuffer[c] = <<>>,
                                 !.inserted[c] = <<>>,
                                 !.needsPack[c] = FALSE,
                                 !.modeTypes[c] = <<>>,
                                 !.dimension[c] = <<>>]

\* C29: transpose(newModeOrdering) returns a packed tensor (needsPack
\* false) whose dimension k is the source's dimension newModeOrdering[k]
\* and which holds, for every record (c, v) of the source's storage, the
\* value v at [c[newModeOrdering[0]], ..., c[newModeOrdering[n-1]]], and
\* nothing else; the source's storage, coordinate buffer and need-flags are
\* unchanged; and the transpose of the result by the inverse permutation
\* holds the source's records
C29_TransposePermutesRecords ==
  /\ [](lastOp.op = "transpose" =>
          LET src == content[lastOp.h]
              dst == content[lastOp.to]
              p == lastOp.ordering
          IN /\ ~needsPack[dst]
             /\ coordinateBufferUsed[lastOp.to] = 0
             /\ dimension[dst] =
                  [k \in 1..Len(p) |-> dimension[src][p[k] + 1]]
             /\ Len(storage[dst]) = Len(storage[src])
             /\ \A k \in 1..Len(storage[src]) :
                  \E j \in 1..Len(storage[dst]) :
                    storage[dst][j] =
                      Pair([n \in 1..Len(p) |-> storage[src][k].first[p[n] + 1]],
                           storage[src][k].second)
             /\ \A junk \in JunkPairs :
                  \E W1 \in {transpose(Vacated(World, lastOp.h), lastOp.to, "x",
                                       Inverse(p), modeTypes[dst], junk)} :
                    /\ W1.storage[W1.content["x"]] = storage[src]
                    /\ W1.dimension[W1.content["x"]] = dimension[src])
  /\ [][lastOp'.op = "transpose" =>
         \E src \in {content[lastOp'.h]} :
            /\ content'[lastOp'.h] = src
            /\ storage'[src] = storage[src]
            /\ coordinateBuffer'[src] = coordinateBuffer[src]
            /\ coordinateBufferUsed'[lastOp'.h] = coordinateBufferUsed[lastOp'.h]
            /\ needsPack'[src] = needsPack[src]
            /\ needsCompile'[src] = needsCompile[src]
            /\ needsAssemble'[src] = needsAssemble[src]
            /\ needsCompute'[src] = needsCompute[src]]_vars

\* a 2 x 1 matrix of two records, with an insertion pending, was
\* transposed into a 1 x 2 matrix
C29_Witness ==
  /\ lastOp.op = "transpose"
  /\ lastOp.ordering = <<1, 0>>
  /\ dimension[content[lastOp.h]] = <<2, 1>>
  /\ dimension[content[lastOp.to]] = <<1, 2>>
  /\ Len(storage[content[lastOp.h]]) = 2
  /\ Len(storage[content[lastOp.to]]) = 2
  /\ needsPack[content[lastOp.h]]

=============================================================================
